---------------------------- MODULE Spec2Model ----------------------------
(***************************************************************************)
(* Lead-generation pipelines (CPG, HVAC, Dental, CMS, FMCSA, dealer):      *)
(* contact enrichment, provenance tags, hard caps and the rate gate.       *)
(*                                                                         *)
(* A Python str is modelled as a sequence of atoms (an atom is a word or   *)
(* a separator), so "" is <<>>, s.lower() is Lower(s), "kw in s" is        *)
(* Contains(kw, s) and s.strip() is Strip(s).  A Python dict is a function *)
(* whose DOMAIN is its key set; None and "" are both the falsy <<>>.       *)
(***************************************************************************)
EXTENDS Integers, Sequences, FiniteSets, TLC

VARIABLES
  APOLLO_API_KEY,        \* TRUE iff the environment variable is non-empty
  HUNTER_API_KEY,        \* TRUE iff the environment variable is non-empty
  pipeline,              \* which script runs
  records,               \* the record objects, by identity 1..Len(records)
  input,                 \* history: the records as handed to enrich_all
  max_api_calls,         \* enrich_all's parameter; 0 models None
  api_calls,             \* client._api_calls
  valid_for_enrichment,  \* identities, in input order
  enriched_map,          \* dict: key -> identity of the record object
  pos,                   \* loop index of the running stage
  final_records,         \* identities, as returned by enrich_all
  pc,                    \* stage of the sequential run
  netCalls,              \* history: provider HTTP requests issued
  hist,                  \* history: per record, what the providers returned
  task,                  \* concurrent pipelines: per record, the task's position
  permits,               \* concurrent pipelines: the semaphore's free permits
  results,               \* concurrent pipelines: what gather returned, per task
  returned,              \* concurrent pipelines: identities returned by _enrich_all
  _request_count,        \* rate gate
  _window_start,         \* rate gate
  now,                   \* time.monotonic(), in seconds
  caller,                \* rate gate: per caller, its position in _throttle
  admitted,              \* history: admission times still inside the last 60 s
  arg,                   \* a single function call: the function and its argument
  ret,                   \* a single function call: what it returned
  infile,                \* CSV scripts: the rows of the input file, as text
  df,                    \* CSV scripts: the DataFrame
  outfile,               \* CSV scripts: the output file on disk
  todo,                  \* CSV scripts: rows_to_search / needs_enrich
  tier,                  \* domain_bridge: index of the query being tried
  cur_attempt,           \* CSV scripts: attempt number of the current request
  searches_used,         \* enrich_leads: the counter of run()
  processed,             \* history: rows whose checkpoint has been written
  seen,                  \* dealer pagination: the dict seen, in insertion order
  page_num,              \* dealer pagination: number of the page being parsed
  scraped                \* history: the records parsed so far, in page order

seqVars  == <<pipeline, records, input, max_api_calls, api_calls,
              valid_for_enrichment, enriched_map, pos, final_records, pc,
              netCalls, hist>>
concVars == <<task, permits, results, returned>>
gateVars == <<_request_count, _window_start, now, caller, admitted>>
keyVars  == <<APOLLO_API_KEY, HUNTER_API_KEY>>
callVars == <<arg, ret>>
runVars  == <<infile, df, outfile, todo, tier, cur_attempt, searches_used, processed>>
pageVars == <<seen, page_num, scraped>>
vars     == <<keyVars, seqVars, concVars, gateVars, callVars, runVars, pageVars>>

---------------------------------------------------------------------------
(* Bounds *)

MaxRecords == 2
MaxCap     == 1
MaxCands   == 2

---------------------------------------------------------------------------
(* Strings *)

LowerAtom(a) ==
  CASE a = "VP"           -> "vp"
    [] a = "Operations"   -> "operations"
    [] a = "CEO"          -> "ceo"
    [] a = "Owner"        -> "owner"
    [] a = "Office"       -> "office"
    [] a = "Manager"      -> "manager"
    [] a = "Intern"       -> "intern"
    [] a = "Logistics"    -> "logistics"
    [] a = "Lead"         -> "lead"
    [] a = "Acme"         -> "acme"
    [] a = "ACME"         -> "acme"
    [] a = "Bolt"         -> "bolt"
    [] a = "Sons"         -> "sons"
    [] a = "Inc"          -> "inc"
    [] a = "Co"           -> "co"
    [] a = "Equipment"    -> "equipment"
    [] a = "FACEBOOK.COM" -> "facebook.com"
    [] a = "Yelp.Com"     -> "yelp.com"
    [] a = "YELP.COM"     -> "yelp.com"
    [] a = "BETA.COM"     -> "beta.com"
    [] a = "WWW."         -> "www."
    [] a = "M."           -> "m."
    [] a = "SHOP."        -> "shop."
    [] a = "NOT"          -> "not"
    [] OTHER              -> a

Lower(s) == [i \in 1..Len(s) |-> LowerAtom(s[i])]

(* str.upper() on the atoms of host names *)
UpperAtom(a) ==
  CASE a = "facebook.com" -> "FACEBOOK.COM"
    [] a = "Yelp.Com"     -> "YELP.COM"
    [] a = "yelp.com"     -> "YELP.COM"
    [] a = "beta.com"     -> "BETA.COM"
    [] a = "www."         -> "WWW."
    [] a = "m."           -> "M."
    [] a = "shop."        -> "SHOP."
    [] a = "not"          -> "NOT"
    [] OTHER              -> a

Upper(s) == [i \in 1..Len(s) |-> UpperAtom(s[i])]

Contains(sub, s) ==
  \E i \in 0..(Len(s) - Len(sub)) : SubSeq(s, i + 1, i + Len(sub)) = sub

RECURSIVE LStrip(_)
LStrip(s) == IF s # <<>> /\ Head(s) = " " THEN LStrip(Tail(s)) ELSE s

RECURSIVE RStrip(_)
RStrip(s) ==
  IF s # <<>> /\ s[Len(s)] = " " THEN RStrip(SubSeq(s, 1, Len(s) - 1)) ELSE s

Strip(s) == RStrip(LStrip(s))

Truthy(v) == v # <<>>

(* Dicts *)

EmptyDict == [k \in {} |-> <<>>]

Get(d, k) == IF k \in DOMAIN d THEN d[k] ELSE <<>>

NOT_FOUND == <<"not_found">>


---------------------------------------------------------------------------
(* Candidate contacts, as a provider returns them.  Hunter calls the title *)
(* "position" and the address "value"; Apollo "title" and "email".         *)

Cand(id, first, last, title, email) ==
  [id |-> id, first_name |-> first, last_name |-> last,
   title |-> title, email |-> email]

Candidates ==
  { Cand(<<"p1">>, <<"Ann">>, <<"Lee">>, <<"VP", " ", "Operations">>, <<"ann@x">>),
    Cand(<<"p2">>, <<"Bob">>, <<>>,      <<"CEO">>,                   <<"bob@x">>),
    Cand(<<"p3">>, <<"Cy">>,  <<>>,      <<"Owner">>,                 <<>>),
    Cand(<<>>,     <<>>,      <<>>,      <<>>,                        <<"info@x">>),
    Cand(<<"p5">>, <<"Di">>,  <<>>,      <<"Intern">>,                <<"di@x">>) }

CandLists == UNION { [1..n -> Candidates] : n \in 0..MaxCands }

(* A provider's answer to one HTTP request. *)
FailKinds == {"http_error", "exception", "malformed"}

ListResponses ==
  { [kind |-> k, items |-> <<>>] : k \in FailKinds }
    \cup { [kind |-> "ok", items |-> l] : l \in CandLists }

OrgResponses ==
  { [kind |-> k, items |-> <<>>] : k \in FailKinds }
    \cup { [kind |-> "ok", items |-> l] : l \in { <<>>, << <<"org1">> >> } }

MatchResponses ==
  { [kind |-> k, items |-> <<>>] : k \in FailKinds }
    \cup { [kind |-> "ok", items |-> e] : e \in { <<>>, <<"m@x">> } }

---------------------------------------------------------------------------
(* Keyword lists *)

OPS_KEYWORDS ==
  << <<"operations">>, <<"supply", " ", "chain">>, <<"logistics">>, <<"coo">>,
     <<"chief", " ", "operating">>, <<"vp", " ", "operations">>,
     <<"head", " ", "of", " ", "operations">> >>

EXEC_KEYWORDS ==
  << <<"ceo">>, <<"founder">>, <<"president">>, <<"owner">>,
     <<"chief", " ", "executive">>, <<"managing", " ", "director">>,
     <<"co-founder">> >>

PRACTICE_MANAGER_KEYWORDS ==
  << <<"practice", " ", "manager">>, <<"office", " ", "manager">>, <<"owner">>,
     <<"dental", " ", "director">>, <<"administrator">> >>

CMS_TITLE_PRIORITY ==
  << <<"owner">>, <<"director">>, <<"administrator">>, <<"ceo">>,
     <<"president">>, <<"founder">>, <<"principal">>,
     <<"executive", " ", "director">>, <<"chief", " ", "executive">>,
     <<"managing", " ", "director">>, <<"general", " ", "manager">> >>

FMCSA_TITLE_PRIORITY ==
  << <<"owner">>, <<"president">>, <<"principal">>, <<"general", " ", "manager">>,
     <<"gm">>, <<"ceo">>, <<"founder">>, <<"partner">>,
     <<"director", " ", "of", " ", "operations">> >>

DEALER_TITLE_PRIORITY ==
  << <<"owner">>, <<"president">>, <<"principal">>, <<"general", " ", "manager">>,
     <<"gm">>, <<"ceo">>, <<"founder">>, <<"partner">> >>

HUNTER_PRIORITY ==
  << <<"owner">>, <<"president">>, <<"general", " ", "manager">>, <<"director">>,
     <<"principal">> >>

NoRank == 99

---------------------------------------------------------------------------
(* Contact ranking *)

MatchesAny(title, keywords) ==
  \E i \in 1..Len(keywords) : Contains(keywords[i], Lower(title))

(* rank(p): index (from 0) of the first keyword found in the lower-cased title *)
rank(title, priority) ==
  IF MatchesAny(title, priority)
    THEN (CHOOSE i \in 1..Len(priority) :
            /\ Contains(priority[i], Lower(title))
            /\ \A j \in 1..(i - 1) : ~Contains(priority[j], Lower(title))) - 1
    ELSE NoRank

(* an insertion that puts a candidate before the earlier ones of its rank *)
RECURSIVE InsertByRankUnstable(_, _, _)
InsertByRankUnstable(x, sorted, priority) ==
  IF sorted = <<>> THEN <<x>>
  ELSE IF rank(Head(sorted).title, priority) < rank(x.title, priority)
         THEN <<Head(sorted)>> \o InsertByRankUnstable(x, Tail(sorted), priority)
         ELSE <<x>> \o sorted

(* sorted(people, key=rank): Python's sort is stable *)
RECURSIVE InsertByRank(_, _, _)
InsertByRank(x, sorted, priority) ==
  IF sorted = <<>> THEN <<x>>
  ELSE IF rank(Head(sorted).title, priority) <= rank(x.title, priority)
         THEN <<Head(sorted)>> \o InsertByRank(x, Tail(sorted), priority)
         ELSE <<x>> \o sorted

RECURSIVE SortedByRank(_, _)
SortedByRank(people, priority) ==
  IF people = <<>> THEN <<>>
  ELSE InsertByRank(people[Len(people)],
                    SortedByRank(SubSeq(people, 1, Len(people) - 1), priority),
                    priority)

FullName(first, last) == Strip(first \o <<" ">> \o last)

---------------------------------------------------------------------------
(* Provider steps.  Each returns [raised, result]: raised is TRUE when the  *)
(* Python function lets an exception escape, result is the returned dict.   *)

Ret(d) == [raised |-> FALSE, result |-> d]
Raised == [raised |-> TRUE, result |-> EmptyDict]

(* a status dict that also names a placeholder contact *)
TagWithPlaceholder(source) ==
  [contact_name |-> <<"Unknown">>, email_source |-> source]

Tag(source) == [k \in {"email_source"} |-> source]

(* _extract_contact (CPG, HVAC) *)
_extract_contact(entry, source) ==
  [contact_name  |-> FullName(entry.first_name, entry.last_name),
   contact_title |-> entry.title,
   contact_email |-> entry.email,
   email_source  |-> source]

(* a ranker that looks for an executive title before an operations title *)
CpgHunterResultExecFirst(resp) ==
  IF resp.kind \in {"http_error", "exception"} THEN Ret(Tag(<<"hunter_error">>))
  ELSE IF resp.kind = "malformed" THEN Raised
  ELSE IF resp.items = <<>> THEN Ret(Tag(<<"hunter_no_emails">>))
  ELSE
    LET emails == resp.items
        ops_candidates  == SelectSeq(emails, LAMBDA e : MatchesAny(e.title, OPS_KEYWORDS))
        exec_candidates == SelectSeq(emails, LAMBDA e : MatchesAny(e.title, EXEC_KEYWORDS))
        titled          == SelectSeq(emails, LAMBDA e : Truthy(e.title))
    IN  IF exec_candidates # <<>> THEN Ret(_extract_contact(exec_candidates[1], <<"hunter_exec">>))
        ELSE IF ops_candidates # <<>> THEN Ret(_extract_contact(ops_candidates[1], <<"hunter_ops">>))
        ELSE IF titled # <<>> THEN Ret(_extract_contact(titled[1], <<"hunter_generic">>))
        ELSE Ret(_extract_contact(emails[1], <<"hunter_no_title">>))

(* CPG enrich_via_hunter, after the request was issued *)
CpgHunterResult(resp) ==
  IF resp.kind \in {"http_error", "exception"} THEN Ret(Tag(<<"hunter_error">>))
  ELSE IF resp.kind = "malformed" THEN Raised
  ELSE IF resp.items = <<>> THEN Ret(Tag(<<"hunter_no_emails">>))
  ELSE
    LET emails == resp.items
        ops_candidates  == SelectSeq(emails, LAMBDA e : MatchesAny(e.title, OPS_KEYWORDS))
        exec_candidates == SelectSeq(emails, LAMBDA e : MatchesAny(e.title, EXEC_KEYWORDS))
        titled          == SelectSeq(emails, LAMBDA e : Truthy(e.title))
    IN  IF ops_candidates # <<>> THEN Ret(_extract_contact(ops_candidates[1], <<"hunter_ops">>))
        ELSE IF exec_candidates # <<>> THEN Ret(_extract_contact(exec_candidates[1], <<"hunter_exec">>))
        ELSE IF titled # <<>> THEN Ret(_extract_contact(titled[1], <<"hunter_generic">>))
        ELSE Ret(_extract_contact(emails[1], <<"hunter_no_title">>))

(* Dental enrich_via_hunter, after the request was issued *)
DentalHunterResult(resp) ==
  IF resp.kind \in {"http_error", "exception"} THEN Ret(Tag(<<"hunter_error">>))
  ELSE IF resp.kind = "malformed" THEN Raised
  ELSE IF resp.items = <<>> THEN Ret(Tag(<<"hunter_no_emails">>))
  ELSE
    LET matching == SelectSeq(resp.items,
                              LAMBDA e : MatchesAny(e.title, PRACTICE_MANAGER_KEYWORDS))
    IN  IF matching # <<>>
          THEN Ret(_extract_contact(matching[1], <<"hunter">>))
          ELSE Ret(Tag(<<"hunter_no_match">>))

(* HVAC _apollo_search_people: the person, or <<>> for {} *)
_apollo_search_people(resp) ==
  IF resp.kind \in {"http_error", "exception"} THEN [raised |-> FALSE, person |-> <<>>]
  ELSE IF resp.kind = "malformed" THEN [raised |-> TRUE, person |-> <<>>]
  ELSE IF resp.items = <<>> THEN [raised |-> FALSE, person |-> <<>>]
  ELSE IF ~Truthy(resp.items[1].id) THEN [raised |-> FALSE, person |-> <<>>]
  ELSE [raised |-> FALSE, person |-> <<resp.items[1]>>]

(* HVAC _apollo_match_email *)
_apollo_match_email(resp) ==
  IF resp.kind \in {"http_error", "exception"} THEN [raised |-> FALSE, email |-> <<>>]
  ELSE IF resp.kind = "malformed" THEN [raised |-> TRUE, email |-> <<>>]
  ELSE [raised |-> FALSE, email |-> resp.items]

(* HVAC enrich_via_apollo, for a non-empty domain with the key set:        *)
(* [raised, result, calls]                                                  *)
HvacApolloResult(r1, r2) ==
  LET s1 == _apollo_search_people(r1)
      s2 == _apollo_match_email(r2)
  IN  IF s1.raised THEN [raised |-> TRUE, result |-> EmptyDict, calls |-> 1]
      ELSE IF s1.person = <<>>
        THEN [raised |-> FALSE, result |-> Tag(<<"apollo_no_contacts">>), calls |-> 1]
      ELSE IF s2.raised THEN [raised |-> TRUE, result |-> EmptyDict, calls |-> 2]
      ELSE IF ~Truthy(s2.email)
        THEN [raised |-> FALSE, result |-> Tag(<<"apollo_no_email">>), calls |-> 2]
      ELSE [raised |-> FALSE,
            result |-> _extract_contact([s1.person[1] EXCEPT !.email = s2.email],
                                        <<"apollo_sales_ops">>),
            calls  |-> 2]

(* Apollo organization search (CMS, FMCSA, dealer): the org id, or {} *)
ApolloOrgStep(resp) ==
  IF resp.kind # "ok" \/ resp.items = <<>>
    THEN [found |-> FALSE, org_id |-> <<>>]
    ELSE [found |-> TRUE, org_id |-> resp.items[1]]

TitlePriority(p) ==
  CASE p = "cms"   -> CMS_TITLE_PRIORITY
    [] p = "fmcsa" -> FMCSA_TITLE_PRIORITY
    [] OTHER       -> DEALER_TITLE_PRIORITY

HunterPriority(p) == IF p = "cms" THEN CMS_TITLE_PRIORITY ELSE HUNTER_PRIORITY

(* Apollo people search (CMS, FMCSA, dealer), second half of enrich_via_apollo *)
ApolloPeopleStep(p, org_id, resp) ==
  LET failed(tag) == Ret([apollo_org_id |-> org_id, email_source |-> tag])
  IN  IF resp.kind = "http_error"
        THEN failed(IF p = "cms" THEN <<"apollo_no_people">> ELSE NOT_FOUND)
      ELSE IF resp.kind = "exception"
        THEN failed(IF p = "cms" THEN <<"apollo_error">> ELSE NOT_FOUND)
      ELSE IF resp.kind = "malformed" THEN Raised
      ELSE IF resp.items = <<>>
        THEN failed(IF p = "cms" THEN <<"apollo_no_people">> ELSE NOT_FOUND)
      ELSE
        LET best == SortedByRank(resp.items, TitlePriority(p))[1]
        IN  Ret([contact_name  |-> FullName(best.first_name, best.last_name),
                 contact_title |-> best.title,
                 contact_email |-> best.email,
                 apollo_org_id |-> org_id,
                 email_source  |-> IF Truthy(best.email) THEN <<"apollo">>
                                                         ELSE <<"apollo_no_email">>])

(* enrich_via_hunter (CMS, FMCSA, dealer), after the request was issued *)
HunterStep(p, resp) ==
  IF resp.kind # "ok" \/ resp.items = <<>> THEN EmptyDict
  ELSE
    LET best == SortedByRank(resp.items, HunterPriority(p))[1]
    IN  [contact_name  |-> FullName(best.first_name, best.last_name),
         contact_title |-> best.title,
         contact_email |-> best.email,
         email_source  |-> <<"hunter">>]

(* enrich: "for k, v in hunter.items(): if v and not result.get(k): result[k] = v" *)
(* a merge in which Hunter's non-empty fields replace Apollo's *)
MergeHunterOverwrites(result, hunter) ==
  LET fill == { k \in DOMAIN hunter : Truthy(hunter[k]) }
  IN  [k \in DOMAIN result \cup fill |-> IF k \in fill THEN hunter[k] ELSE result[k]]

MergeHunter(result, hunter) ==
  LET fill == { k \in DOMAIN hunter : Truthy(hunter[k]) /\ ~Truthy(Get(result, k)) }
  IN  [k \in DOMAIN result \cup fill |-> IF k \in fill THEN hunter[k] ELSE result[k]]

(* enrich: the Hunter fallback is taken when Apollo gave no email *)
(* a fallback that does not look at the email Apollo returned *)
NeedsHunterAlways(p, result, domain) ==
  p = "fmcsa" \/ Truthy(domain)

NeedsHunter(p, result, domain) ==
  /\ ~Truthy(Get(result, "contact_email"))
  /\ (p = "fmcsa" \/ Truthy(domain))

(* enrich: setattr of every result item, then the "not_found" default *)
ApplyResult(rec, result) ==
  LET set == [f \in DOMAIN rec |-> IF f \in DOMAIN result THEN result[f] ELSE rec[f]]
  IN  IF ~Truthy(set.email_source) THEN [set EXCEPT !.email_source = NOT_FOUND] ELSE set

---------------------------------------------------------------------------
(* Domain gate and domain discovery *)

AGGREGATOR_DOMAINS == << <<"facebook.com">>, <<"yelp.com">> >>

(* a gate that compares without lower-casing the domain *)
_is_aggregator_domain_cased(domain) ==
  \E i \in 1..Len(AGGREGATOR_DOMAINS) : Contains(AGGREGATOR_DOMAINS[i], domain)

_is_aggregator_domain(domain) ==
  \E i \in 1..Len(AGGREGATOR_DOMAINS) : Contains(AGGREGATOR_DOMAINS[i], Lower(domain))

(* CMS: urlparse(url).netloc.lower(), without a leading "www." *)
_extract_root_domain(netloc) ==
  LET domain == Lower(netloc)
  IN  IF domain # <<>> /\ Head(domain) = "www." THEN Tail(domain) ELSE domain

DomainSet ==
  { <<>>, <<"beta.com">>, <<"www.", "beta.com">>, <<"facebook.com">>,
    <<"m.", "FACEBOOK.COM">>, <<" ">> }

DomainLists == UNION { [1..n -> DomainSet] : n \in 0..MaxCands }

DiscoverResponses ==
  { [kind |-> k, items |-> <<>>] : k \in FailKinds }
    \cup { [kind |-> "ok", items |-> l] : l \in DomainLists }

(* a discovery that stores the first domain without asking the gate *)
ClearbitDomainUngated(resp) ==
  IF resp.kind # "ok" \/ resp.items = <<>> THEN <<>>
  ELSE resp.items[1]

(* Clearbit pipelines: the website stored for one record (<<>>: none) *)
ClearbitDomain(resp) ==
  IF resp.kind # "ok" \/ resp.items = <<>> THEN <<>>
  ELSE LET domain == resp.items[1]
       IN  IF ~Truthy(domain) \/ _is_aggregator_domain(domain) THEN <<>> ELSE domain

(* CMS: the first result whose root domain is non-empty and not blocked *)
DdgDomain(resp) ==
  IF resp.kind # "ok" THEN <<>>
  ELSE LET usable == SelectSeq(resp.items,
                       LAMBDA h : /\ Truthy(_extract_root_domain(h))
                                  /\ ~_is_aggregator_domain(_extract_root_domain(h)))
       IN  IF usable = <<>> THEN <<>> ELSE _extract_root_domain(usable[1])

---------------------------------------------------------------------------
(* The sequential bridge pipelines: CPG, HVAC, Dental, CMS *)

SeqPipelines == {"cpg", "hvac", "dental", "cms"}

MAX_ENRICHMENT_ATTEMPTS == 5

NewRecord(key) ==
  [key |-> key, email |-> <<>>, website |-> <<>>, contact_name |-> <<>>,
   contact_title |-> <<>>, contact_email |-> <<>>, email_source |-> <<>>,
   apollo_org_id |-> <<>>]

NoHist == [entered |-> FALSE, raised |-> FALSE, apollo |-> EmptyDict,
           hunter |-> EmptyDict, log |-> <<>>]

Ids == 1..MaxRecords

(* dict assignment d[k] = v *)
Put(d, k, v) == [x \in DOMAIN d \cup {k} |-> IF x = k THEN v ELSE d[x]]

ConcIdle ==
  /\ task = <<>> /\ permits = 0 /\ results = <<>> /\ returned = <<>>

GateIdle ==
  /\ _request_count = 0 /\ _window_start = 0 /\ now = 0
  /\ caller = <<>> /\ admitted = <<>>

CallIdle == arg = <<>> /\ ret = <<>>

NoFile == [exists |-> FALSE, rows |-> <<>>]

PageIdle == seen = <<>> /\ page_num = 0 /\ scraped = <<>>

RunIdle ==
  /\ infile = <<>> /\ df = <<>> /\ outfile = NoFile /\ todo = <<>>
  /\ tier = 0 /\ cur_attempt = 0 /\ searches_used = 0 /\ processed = {}

(* Seed lists (CPG, HVAC) hold distinct names; registry rows (Dental, CMS)  *)
(* may repeat a name, and a CMS row may have no CCN.                        *)
KeyChoices(p) ==
  CASE p \in {"cpg", "hvac"} -> { [i \in Ids |-> <<i>>] }
    [] p = "dental"          -> [Ids -> { <<i>> : i \in Ids }]
    [] OTHER                 -> [Ids -> { <<i>> : i \in Ids } \cup { <<>> }]

InitSeq ==
  /\ PageIdle
  /\ RunIdle
  /\ CallIdle
  /\ pipeline \in SeqPipelines
  /\ APOLLO_API_KEY \in (IF pipeline \in {"hvac", "cms"} THEN BOOLEAN ELSE {FALSE})
  /\ HUNTER_API_KEY \in (IF pipeline \in {"cpg", "dental", "cms"} THEN BOOLEAN ELSE {FALSE})
  /\ \E keys \in KeyChoices(pipeline) : records = [i \in Ids |-> NewRecord(keys[i])]
  /\ input = records
  /\ max_api_calls \in (IF pipeline = "cms" THEN {0} ELSE 0..MaxCap)
  /\ api_calls = 0
  /\ valid_for_enrichment = <<>>
  /\ enriched_map = EmptyDict
  /\ pos = 1
  /\ final_records = <<>>
  /\ pc = "discover"
  /\ netCalls = 0
  /\ hist = [i \in Ids |-> NoHist]
  /\ ConcIdle /\ GateIdle

AfterDiscover(recs) ==
  /\ records' = recs
  /\ input' = IF pos = Len(records) THEN recs ELSE input
  /\ pos' = IF pos = Len(records) THEN 1 ELSE pos + 1
  /\ pc' = IF pos = Len(records) THEN "enrich_all" ELSE pc
  /\ UNCHANGED <<pipeline, max_api_calls, api_calls, valid_for_enrichment,
                 enriched_map, final_records, netCalls, hist, keyVars, runVars, pageVars, callVars,
                 concVars, gateVars>>

(* discover_domains (CPG, HVAC, Dental): one iteration of the loop *)
DiscoverClearbit ==
  /\ pc = "discover" /\ pipeline \in {"cpg", "hvac", "dental"}
  /\ \E resp \in DiscoverResponses :
       LET domain == ClearbitDomain(resp)
       IN  AfterDiscover(IF Truthy(domain)
                           THEN [records EXCEPT ![pos].website = domain]
                           ELSE records)

(* discover_domains (CMS): one iteration of the loop *)
DiscoverDdg ==
  /\ pc = "discover" /\ pipeline = "cms"
  /\ \E resp \in DiscoverResponses :
       LET domain == DdgDomain(resp)
       IN  AfterDiscover(IF Truthy(domain)
                           THEN [records EXCEPT ![pos].website = domain]
                           ELSE records)

(* discover_domains (CMS): the ddgs library is missing, records come back as is *)
DiscoverUnavailable ==
  /\ pc = "discover" /\ pipeline = "cms" /\ pos = 1
  /\ pc' = "enrich_all"
  /\ input' = records
  /\ UNCHANGED <<pipeline, records, max_api_calls, api_calls, valid_for_enrichment,
                 enriched_map, pos, final_records, netCalls, hist, keyVars, runVars, pageVars, callVars,
                 concVars, gateVars>>

KeyMissing ==
  CASE pipeline \in {"cpg", "dental"} -> ~HUNTER_API_KEY
    [] pipeline = "hvac"              -> ~APOLLO_API_KEY
    [] OTHER                          -> ~APOLLO_API_KEY /\ ~HUNTER_API_KEY

ValidForEnrichment ==
  SelectSeq([i \in 1..Len(records) |-> i],
            LAMBDA i : /\ Truthy(records[i].website)
                       /\ ~_is_aggregator_domain(records[i].website))

(* the list the loop of enrich_all walks *)
ToEnrich(valid) ==
  IF pipeline = "cms"
    THEN SubSeq(valid, 1, IF Len(valid) < MAX_ENRICHMENT_ATTEMPTS
                            THEN Len(valid) ELSE MAX_ENRICHMENT_ATTEMPTS)
    ELSE valid

Identity == [i \in 1..Len(records) |-> i]

(* enrich_all up to its loop: the key check and the split of the records *)
EnrichAllStart ==
  /\ pc = "enrich_all"
  /\ IF KeyMissing \/ ValidForEnrichment = <<>>
       THEN /\ final_records' = Identity
            /\ pc' = "done"
            /\ UNCHANGED valid_for_enrichment
       ELSE /\ valid_for_enrichment' = ToEnrich(ValidForEnrichment)
            /\ pc' = "loop"
            /\ UNCHANGED final_records
  /\ UNCHANGED <<pipeline, records, input, max_api_calls, api_calls, enriched_map,
                 pos, netCalls, hist, keyVars, runVars, pageVars, callVars, concVars, gateVars>>

CapReached == max_api_calls # 0 /\ api_calls >= max_api_calls

(* the result of one iteration: out = [raised, result, calls, apollo, hunter, log] *)
AfterEnrich(id, out) ==
  /\ records' = IF out.raised THEN records
                ELSE [records EXCEPT ![id] = ApplyResult(records[id], out.result)]
  /\ enriched_map' = IF out.raised THEN enriched_map
                     ELSE Put(enriched_map, records[id].key, id)
  /\ api_calls' = IF pipeline = "cms" THEN api_calls ELSE api_calls + out.calls
  /\ netCalls' = netCalls + out.calls
  /\ hist' = [hist EXCEPT ![id] = [entered |-> TRUE, raised |-> out.raised,
                                   apollo |-> out.apollo, hunter |-> out.hunter,
                                   log |-> out.log]]
  /\ pos' = pos + 1
  /\ UNCHANGED <<pipeline, input, max_api_calls, valid_for_enrichment,
                 final_records, pc, keyVars, runVars, pageVars, callVars, concVars, gateVars>>

InLoop == pc = "loop" /\ pos <= Len(valid_for_enrichment) /\ ~CapReached

NoCall == [raised |-> FALSE, result |-> EmptyDict, calls |-> 0,
           apollo |-> EmptyDict, hunter |-> EmptyDict, log |-> <<>>]

(* CPG and Dental: client.enrich inside the loop of enrich_all *)
EnrichHunterOnly ==
  /\ InLoop /\ pipeline \in {"cpg", "dental"}
  /\ LET id     == valid_for_enrichment[pos]
         domain == Strip(records[id].website)
     IN  IF ~HUNTER_API_KEY \/ ~Truthy(domain)
           THEN AfterEnrich(id, NoCall)
           ELSE \E resp \in ListResponses :
                  LET r == IF pipeline = "cpg" THEN CpgHunterResult(resp)
                                               ELSE DentalHunterResult(resp)
                  IN  AfterEnrich(id, [raised |-> r.raised, result |-> r.result,
                                       calls |-> 1, apollo |-> EmptyDict,
                                       hunter |-> r.result, log |-> <<"hunter">>])

NoMatch == [kind |-> "exception", items |-> <<>>]

(* HVAC: client.enrich inside the loop of enrich_all *)
EnrichHvac ==
  /\ InLoop /\ pipeline = "hvac"
  /\ LET id     == valid_for_enrichment[pos]
         domain == Strip(records[id].website)
     IN  IF ~APOLLO_API_KEY \/ ~Truthy(domain)
           THEN AfterEnrich(id, NoCall)
           ELSE \E r1 \in ListResponses :
                \E r2 \in (IF HvacApolloResult(r1, NoMatch).calls = 2
                             THEN MatchResponses ELSE {NoMatch}) :
                  LET r == HvacApolloResult(r1, r2)
                  IN  AfterEnrich(id, [raised |-> r.raised, result |-> r.result,
                                       calls |-> r.calls, apollo |-> r.result,
                                       hunter |-> EmptyDict,
                                       log |-> IF r.calls = 1 THEN <<"apollo_people">>
                                               ELSE <<"apollo_people", "apollo_match">>])


(* enrich (Apollo first, Hunter as fallback) run to completion for one      *)
(* record: [raised, result, calls, apollo, hunter, log]                     *)
EnrichApolloHunter(p, domain, rOrg, rPeople, rHunter) ==
  LET org    == ApolloOrgStep(rOrg)
      people == ApolloPeopleStep(p, org.org_id, rPeople)
      a      == IF ~APOLLO_API_KEY
                  THEN [raised |-> FALSE, result |-> EmptyDict, log |-> <<>>]
                ELSE IF ~org.found
                  THEN [raised |-> FALSE, result |-> EmptyDict, log |-> <<"apollo_org">>]
                ELSE [raised |-> people.raised, result |-> people.result,
                      log |-> <<"apollo_org", "apollo_people">>]
      hunterDomain == IF p = "fmcsa" THEN <<>> ELSE domain
      fallback == ~a.raised /\ NeedsHunter(p, a.result, domain)
      request  == fallback /\ HUNTER_API_KEY /\ Truthy(hunterDomain)
      h        == IF request THEN HunterStep(p, rHunter) ELSE EmptyDict
      log      == a.log \o (IF request THEN <<"hunter">> ELSE <<>>)
  IN  [raised |-> a.raised,
       result |-> IF fallback THEN MergeHunter(a.result, h) ELSE a.result,
       calls  |-> Len(log), apollo |-> a.result, hunter |-> h, log |-> log]

(* a request that is never issued has no answer; this one is never read *)
NoResponse == [kind |-> "exception", items |-> <<>>]

HunterRequested(p, domain, rOrg, rPeople) ==
  LET log == EnrichApolloHunter(p, domain, rOrg, rPeople, NoResponse).log
  IN  \E i \in 1..Len(log) : log[i] = "hunter"

(* CMS: client.enrich inside the loop of enrich_all *)
EnrichCms ==
  /\ InLoop /\ pipeline = "cms"
  /\ LET id     == valid_for_enrichment[pos]
         domain == Strip(records[id].website)
     IN  \E rOrg \in (IF APOLLO_API_KEY THEN OrgResponses ELSE {NoResponse}) :
           \E rPeople \in (IF APOLLO_API_KEY /\ ApolloOrgStep(rOrg).found
                             THEN ListResponses ELSE {NoResponse}) :
             \E rHunter \in (IF HunterRequested("cms", domain, rOrg, rPeople)
                               THEN ListResponses ELSE {NoResponse}) :
               AfterEnrich(id, EnrichApolloHunter("cms", domain, rOrg, rPeople, rHunter))

(* enrich_all after its loop: final_records built from enriched_map *)
FinalRecords ==
  [i \in 1..Len(records) |->
     IF records[i].key \in DOMAIN enriched_map THEN enriched_map[records[i].key] ELSE i]

(* the loop of enrich_all ends (list exhausted, or the hard limit breaks it) *)
LoopExit ==
  /\ pc = "loop" /\ (pos > Len(valid_for_enrichment) \/ CapReached)
  /\ final_records' = FinalRecords
  /\ pc' = "done"
  /\ UNCHANGED <<pipeline, records, input, max_api_calls, api_calls,
                 valid_for_enrichment, enriched_map, pos, netCalls, hist,
                 keyVars, runVars, pageVars, callVars, concVars, gateVars>>

NextSeq ==
  \/ DiscoverClearbit
  \/ DiscoverDdg
  \/ DiscoverUnavailable
  \/ EnrichAllStart
  \/ EnrichHunterOnly
  \/ EnrichHvac
  \/ EnrichCms
  \/ LoopExit

SpecSeq == InitSeq /\ [][NextSeq]_vars

(* the rows handed to export_to_csv *)
Exported == [i \in 1..Len(final_records) |-> records[final_records[i]]]

SeqDone == pc = "done"


---------------------------------------------------------------------------
(* The concurrent pipelines: FMCSA (TruckingFleetScraper) and dealer        *)
(* (DealerScraper), _enrich_all with asyncio.gather under a semaphore.      *)

ConcPipelines == {"fmcsa", "dealer"}

MAX_ENRICHMENT_CONCURRENCY == 5

NoTask == [pc |-> "none", org_id |-> <<>>]

(* the provider's answers to the tasks of one run: every answer when few    *)
(* records are enriched; when there are more tasks than permits, an         *)
(* organization each time and a people search that succeeds or is malformed *)
NumTasks == 6

TaskIds == 1..NumTasks

ManyTasks == Len(records) > MaxRecords

OrgAnswers ==
  IF ManyTasks
    THEN { [kind |-> "ok", items |-> << <<"org1">> >>] }
    ELSE OrgResponses

PeopleAnswers ==
  IF ManyTasks
    THEN { [kind |-> "malformed", items |-> <<>>],
           [kind |-> "ok", items |-> <<CHOOSE c \in Candidates : c.id = <<"p1">> >>] }
    ELSE ListResponses

(* dealer enrich: website without scheme, up to the first "/", stripped *)
RECURSIVE Without(_, _)
Without(s, atoms) ==
  IF s = <<>> THEN <<>>
  ELSE IF Head(s) \in atoms THEN Without(Tail(s), atoms)
  ELSE <<Head(s)>> \o Without(Tail(s), atoms)

RECURSIVE UpToSlash(_)
UpToSlash(s) ==
  IF s = <<>> \/ Head(s) = "/" THEN <<>> ELSE <<Head(s)>> \o UpToSlash(Tail(s))

DealerDomain(website) == Strip(UpToSlash(Without(website, {"https://", "http://"})))

(* the domain enrich passes on: the dealer's website, nothing for FMCSA *)
ConcDomain(p, rec) == IF p = "dealer" THEN DealerDomain(rec.website) ELSE <<>>

SeqIdle ==
  /\ max_api_calls = 0 /\ api_calls = 0 /\ valid_for_enrichment = <<>>
  /\ enriched_map = EmptyDict /\ pos = 1 /\ final_records = <<>>

(* FMCSA rows may carry the registry's own email; the dealer listing page   *)
(* has no website, so DealerRecord.website is "" for every scraped dealer.  *)
InitConc ==
  /\ PageIdle
  /\ RunIdle
  /\ CallIdle
  /\ pipeline \in ConcPipelines
  /\ APOLLO_API_KEY \in BOOLEAN
  /\ HUNTER_API_KEY \in BOOLEAN
  /\ \E emails \in [Ids -> { <<>>, <<"fleet@x">> }] :
       records = [i \in Ids |->
                    IF pipeline = "fmcsa"
                      THEN [NewRecord(<<i>>) EXCEPT
                              !.email = emails[i],
                              !.email_source = IF Truthy(emails[i]) THEN <<"fmcsa">> ELSE <<>>]
                      ELSE NewRecord(<<i>>)]
  /\ input = records
  /\ pc = "start"
  /\ netCalls = 0
  /\ hist = [i \in Ids |-> NoHist]
  /\ task = [i \in Ids |-> NoTask]
  /\ permits = 0
  /\ results = <<>>
  /\ returned = <<>>
  /\ SeqIdle /\ GateIdle

needs_enrichment ==
  SelectSeq([i \in 1..Len(records) |-> i],
            LAMBDA i : pipeline = "dealer" \/ ~Truthy(records[i].email))

already_have ==
  SelectSeq([i \in 1..Len(records) |-> i],
            LAMBDA i : pipeline = "fmcsa" /\ Truthy(records[i].email))

Range(q) == { q[i] : i \in 1..Len(q) }

(* run_pipeline / _enrich_all up to gather: the early returns, or the tasks *)
ConcStart ==
  /\ pc = "start"
  /\ IF ~(APOLLO_API_KEY \/ HUNTER_API_KEY)
       THEN /\ records' = IF pipeline = "fmcsa"
                            THEN [i \in 1..Len(records) |->
                                    IF i \in Range(needs_enrichment)
                                      THEN [records[i] EXCEPT !.email_source = NOT_FOUND]
                                      ELSE records[i]]
                            ELSE records
            /\ returned' = already_have \o needs_enrichment
            /\ pc' = "done"
            /\ UNCHANGED <<task, permits>>
       ELSE IF needs_enrichment = <<>>
         THEN /\ returned' = already_have
              /\ pc' = "done"
              /\ UNCHANGED <<records, task, permits>>
         ELSE /\ task' = [i \in DOMAIN records |-> IF i \in Range(needs_enrichment)
                                          THEN [NoTask EXCEPT !.pc = "created"]
                                          ELSE NoTask]
              /\ permits' = MAX_ENRICHMENT_CONCURRENCY
              /\ pc' = "gather"
              /\ UNCHANGED <<records, returned>>
  /\ UNCHANGED <<pipeline, input, netCalls, hist, results, keyVars, runVars, pageVars, callVars, gateVars,
                 max_api_calls, api_calls, valid_for_enrichment, enriched_map,
                 pos, final_records>>

ConcFrame ==
  UNCHANGED <<pipeline, input, results, returned, pc, keyVars, runVars, pageVars, callVars, now, _window_start,
              caller, admitted, max_api_calls, api_calls, valid_for_enrichment,
              enriched_map, pos, final_records>>

(* the end of enrich for one task: Hunter fallback, setattr, "not_found",   *)
(* and the semaphore released by "async with sem"                           *)
FinishEnrich(id, apollo, log, acquired) ==
  LET domain   == ConcDomain(pipeline, records[id])
      hunterDomain == IF pipeline = "fmcsa" THEN <<>> ELSE domain
      fallback == NeedsHunter(pipeline, apollo, domain)
      request  == fallback /\ HUNTER_API_KEY /\ Truthy(hunterDomain)
  IN  \E rHunter \in (IF request THEN ListResponses ELSE {NoResponse}) :
        LET h      == IF request THEN HunterStep(pipeline, rHunter) ELSE EmptyDict
            result == IF fallback THEN MergeHunter(apollo, h) ELSE apollo
            sent   == IF request THEN 1 ELSE 0
        IN  /\ records' = [records EXCEPT ![id] = ApplyResult(records[id], result)]
            /\ task' = [task EXCEPT ![id].pc = "done"]
            /\ permits' = permits - acquired + 1
            /\ hist' = [hist EXCEPT ![id] =
                          [entered |-> TRUE, raised |-> FALSE, apollo |-> apollo,
                           hunter |-> h,
                           log |-> log \o (IF request THEN <<"hunter">> ELSE <<>>)]]
            /\ netCalls' = netCalls + sent
            /\ _request_count' = _request_count + sent

(* _one entering enrich without waiting for a free permit *)
TaskBeginUnbounded(id) ==
  /\ id \in DOMAIN records
  /\ pc = "gather" /\ task[id].pc = "created"
  /\ IF APOLLO_API_KEY
       THEN /\ task' = [task EXCEPT ![id].pc = "org"]
            /\ permits' = permits - 1
            /\ hist' = [hist EXCEPT ![id].entered = TRUE, ![id].log = <<"apollo_org">>]
            /\ netCalls' = netCalls + 1
            /\ _request_count' = _request_count + 1
            /\ UNCHANGED records
       ELSE FinishEnrich(id, EmptyDict, <<>>, 1)
  /\ ConcFrame

(* _one: the semaphore is acquired and enrich runs to its first request *)
TaskBegin(id) ==
  /\ id \in DOMAIN records
  /\ pc = "gather" /\ task[id].pc = "created" /\ permits > 0
  /\ IF APOLLO_API_KEY
       THEN /\ task' = [task EXCEPT ![id].pc = "org"]
            /\ permits' = permits - 1
            /\ hist' = [hist EXCEPT ![id].entered = TRUE, ![id].log = <<"apollo_org">>]
            /\ netCalls' = netCalls + 1
            /\ _request_count' = _request_count + 1
            /\ UNCHANGED records
       ELSE FinishEnrich(id, EmptyDict, <<>>, 1)
  /\ ConcFrame

(* enrich_via_apollo: the organization search answers *)
OrgResponse(id) ==
  /\ id \in DOMAIN records
  /\ pc = "gather" /\ task[id].pc = "org"
  /\ \E rOrg \in OrgAnswers :
       LET org == ApolloOrgStep(rOrg)
       IN  IF org.found
             THEN /\ task' = [task EXCEPT ![id].pc = "people", ![id].org_id = org.org_id]
                  /\ hist' = [hist EXCEPT ![id].log = @ \o <<"apollo_people">>]
                  /\ netCalls' = netCalls + 1
                  /\ _request_count' = _request_count + 1
                  /\ UNCHANGED <<records, permits>>
             ELSE FinishEnrich(id, EmptyDict, hist[id].log, 0)
  /\ ConcFrame

(* enrich_via_apollo: the people search answers *)
PeopleResponse(id) ==
  /\ id \in DOMAIN records
  /\ pc = "gather" /\ task[id].pc = "people"
  /\ \E rPeople \in PeopleAnswers :
       LET r == ApolloPeopleStep(pipeline, task[id].org_id, rPeople)
       IN  IF r.raised
             THEN /\ task' = [task EXCEPT ![id].pc = "raised"]
                  /\ permits' = permits + 1
                  /\ hist' = [hist EXCEPT ![id].raised = TRUE]
                  /\ UNCHANGED <<records, netCalls, _request_count>>
             ELSE FinishEnrich(id, r.result, hist[id].log, 0)
  /\ ConcFrame

(* gather(return_exceptions=True) completes; exceptions are filtered out *)
Gather ==
  /\ pc = "gather"
  /\ \A id \in Range(needs_enrichment) : task[id].pc \in {"done", "raised"}
  /\ results' = [k \in 1..Len(needs_enrichment) |->
                   IF task[needs_enrichment[k]].pc = "raised" THEN "exception" ELSE "record"]
  /\ returned' = already_have
                   \o SelectSeq(needs_enrichment, LAMBDA id : task[id].pc # "raised")
  /\ pc' = "done"
  /\ UNCHANGED <<pipeline, records, input, netCalls, hist, task, permits, keyVars, runVars, pageVars, callVars,
                 gateVars, max_api_calls, api_calls, valid_for_enrichment,
                 enriched_map, pos, final_records>>

NextConc ==
  \/ ConcStart
  \/ \E id \in TaskIds : TaskBegin(id)
  \/ \E id \in TaskIds : OrgResponse(id)
  \/ \E id \in TaskIds : PeopleResponse(id)
  \/ Gather

SpecConc == InitConc /\ [][NextConc]_vars

(* _enrich_all with more records to enrich than the semaphore has permits.  *)

InitSem ==
  /\ PageIdle
  /\ RunIdle
  /\ CallIdle
  /\ pipeline = "dealer"
  /\ APOLLO_API_KEY = TRUE
  /\ HUNTER_API_KEY = TRUE
  /\ records = [i \in 1..NumTasks |-> NewRecord(<<i>>)]
  /\ input = records
  /\ pc = "start"
  /\ netCalls = 0
  /\ hist = [i \in 1..NumTasks |-> NoHist]
  /\ task = [i \in 1..NumTasks |-> NoTask]
  /\ permits = 0
  /\ results = <<>>
  /\ returned = <<>>
  /\ SeqIdle /\ GateIdle

SpecSem == InitSem /\ [][NextConc]_vars

(* The event loop runs a task whenever it can go on, and every request      *)
(* ends: with an answer, or with the 15 s ClientTimeout as an exception.    *)
FairSpecSem == SpecSem /\ WF_vars(NextConc)

---------------------------------------------------------------------------
(* One call of EnrichmentClient.enrich(record), request by request, for     *)
(* the three clients that try Apollo and then Hunter (CMS, FMCSA, dealer).  *)

TwoProviderPipelines == {"cms", "fmcsa", "dealer"}

WebsiteSet ==
  { <<>>, <<" ">>, <<"beta.com">>, <<"https://", "beta.com", "/", "about">> }

(* the domain enrich works out from the record *)
EnrichDomain(p, rec) ==
  CASE p = "cms"    -> Strip(rec.website)
    [] p = "dealer" -> DealerDomain(rec.website)
    [] OTHER        -> <<>>

InitEnrich ==
  /\ PageIdle
  /\ RunIdle
  /\ CallIdle
  /\ pipeline \in TwoProviderPipelines
  /\ APOLLO_API_KEY \in BOOLEAN
  /\ HUNTER_API_KEY \in BOOLEAN
  /\ \E one \in Ids, w \in WebsiteSet :
       /\ records = [i \in Ids |->
                       IF i = one /\ pipeline # "fmcsa"
                         THEN [NewRecord(<<i>>) EXCEPT !.website = w]
                         ELSE NewRecord(<<i>>)]
       /\ task = [i \in Ids |-> IF i = one THEN [NoTask EXCEPT !.pc = "called"] ELSE NoTask]
  /\ input = records
  /\ pc = "enrich"
  /\ netCalls = 0
  /\ hist = [i \in Ids |-> NoHist]
  /\ permits = 0 /\ results = <<>> /\ returned = <<>>
  /\ SeqIdle /\ GateIdle

EnrichFrame ==
  UNCHANGED <<pipeline, input, results, returned, permits, pc, keyVars, runVars, pageVars, callVars, now,
              _window_start, caller, admitted, max_api_calls, api_calls,
              valid_for_enrichment, enriched_map, pos, final_records>>

(* enrich from "for k, v in result.items()" on: setattr, then "not_found" *)
EnrichReturn(id, result, apollo, hunter) ==
  /\ records' = [records EXCEPT ![id] = ApplyResult(records[id], result)]
  /\ task' = [task EXCEPT ![id].pc = "returned"]
  /\ hist' = [hist EXCEPT ![id].entered = TRUE, ![id].apollo = apollo,
                           ![id].hunter = hunter]
  /\ UNCHANGED <<netCalls, _request_count>>

(* an FMCSA enrich that hands the company name to enrich_via_hunter *)
HunterDomainCompany(p, rec) ==
  IF p = "fmcsa" THEN rec.key ELSE EnrichDomain(p, rec)

(* the argument enrich gives enrich_via_hunter: "" in the FMCSA client *)
HunterDomain(p, rec) ==
  IF p = "fmcsa" THEN <<>> ELSE EnrichDomain(p, rec)

(* enrich once enrich_via_apollo has returned: the Hunter request, or none *)
AfterApollo(id, apollo) ==
  LET domain       == EnrichDomain(pipeline, records[id])
      hunterDomain == HunterDomain(pipeline, records[id])
      fallback     == NeedsHunter(pipeline, apollo, domain)
  IN  IF fallback /\ HUNTER_API_KEY /\ Truthy(hunterDomain)
        THEN /\ task' = [task EXCEPT ![id].pc = "hunter"]
             /\ hist' = [hist EXCEPT ![id].entered = TRUE, ![id].apollo = apollo,
                                      ![id].log = @ \o <<"hunter">>]
             /\ netCalls' = netCalls + 1
             /\ _request_count' = _request_count + 1
             /\ UNCHANGED records
        ELSE EnrichReturn(id, IF fallback THEN MergeHunter(apollo, EmptyDict) ELSE apollo,
                          apollo, EmptyDict)

(* enrich is called: enrich_via_apollo up to its organization search *)
EnrichCall(id) ==
  /\ pc = "enrich" /\ task[id].pc = "called"
  /\ IF APOLLO_API_KEY
       THEN /\ task' = [task EXCEPT ![id].pc = "org"]
            /\ hist' = [hist EXCEPT ![id].entered = TRUE, ![id].log = <<"apollo_org">>]
            /\ netCalls' = netCalls + 1
            /\ _request_count' = _request_count + 1
            /\ UNCHANGED records
       ELSE AfterApollo(id, EmptyDict)
  /\ EnrichFrame

(* the organization search answers *)
EnrichOrgResponse(id) ==
  /\ pc = "enrich" /\ task[id].pc = "org"
  /\ \E rOrg \in OrgResponses :
       LET org == ApolloOrgStep(rOrg)
       IN  IF org.found
             THEN /\ task' = [task EXCEPT ![id].pc = "people", ![id].org_id = org.org_id]
                  /\ hist' = [hist EXCEPT ![id].log = @ \o <<"apollo_people">>]
                  /\ netCalls' = netCalls + 1
                  /\ _request_count' = _request_count + 1
                  /\ UNCHANGED records
             ELSE AfterApollo(id, EmptyDict)
  /\ EnrichFrame

(* the people search answers *)
EnrichPeopleResponse(id) ==
  /\ pc = "enrich" /\ task[id].pc = "people"
  /\ \E rPeople \in ListResponses :
       LET r == ApolloPeopleStep(pipeline, task[id].org_id, rPeople)
       IN  IF r.raised
             THEN /\ task' = [task EXCEPT ![id].pc = "raised"]
                  /\ hist' = [hist EXCEPT ![id].raised = TRUE]
                  /\ UNCHANGED <<records, netCalls, _request_count>>
             ELSE AfterApollo(id, r.result)
  /\ EnrichFrame

(* the Hunter domain search answers; its fields are merged in *)
EnrichHunterResponse(id) ==
  /\ pc = "enrich" /\ task[id].pc = "hunter"
  /\ \E rHunter \in ListResponses :
       LET h == HunterStep(pipeline, rHunter)
       IN  EnrichReturn(id, MergeHunter(hist[id].apollo, h), hist[id].apollo, h)
  /\ EnrichFrame

NextEnrich ==
  \/ \E id \in Ids : EnrichCall(id)
  \/ \E id \in Ids : EnrichOrgResponse(id)
  \/ \E id \in Ids : EnrichPeopleResponse(id)
  \/ \E id \in Ids : EnrichHunterResponse(id)

SpecEnrich == InitEnrich /\ [][NextEnrich]_vars

---------------------------------------------------------------------------
(* The rate gate: EnrichmentClient._throttle, called by the enrichment      *)
(* tasks that share one client.  The method has the same text in the CMS,   *)
(* FMCSA and dealer modules.  Time is time.monotonic() in seconds.          *)

APOLLO_RPM == 50

WINDOW == 60

NumCallers == 2
TickStep   == 30
MaxTime    == 90

Callers == 1..NumCallers

Awake == [pc |-> "ready", wake |-> 0]

InitGate ==
  /\ PageIdle
  /\ RunIdle
  /\ CallIdle
  /\ pipeline = "dealer"
  /\ APOLLO_API_KEY = TRUE
  /\ HUNTER_API_KEY = TRUE
  /\ records = <<>> /\ input = <<>> /\ pc = "gate"
  /\ netCalls = 0 /\ hist = <<>>
  /\ SeqIdle /\ ConcIdle
  /\ _request_count = 0
  /\ _window_start = 0
  /\ now = 0
  /\ caller = [c \in Callers |-> Awake]
  /\ admitted = <<>>

GateFrame ==
  UNCHANGED <<pipeline, records, input, pc, netCalls, hist, keyVars, runVars, pageVars, callVars, concVars,
              max_api_calls, api_calls, valid_for_enrichment, enriched_map,
              pos, final_records>>

(* a first if that lets a window of exactly 60 seconds go on *)
WindowElapsedLate == now - _window_start > WINDOW

(* _throttle, first if: a window that has run out is restarted *)
WindowElapsed == now - _window_start >= WINDOW

CountAtCheck == IF WindowElapsed THEN 0 ELSE _request_count

StartAtCheck == IF WindowElapsed THEN now ELSE _window_start

(* _throttle with the count below the ceiling: returns without suspending *)
ThrottleAdmit(c) ==
  /\ pc = "gate" /\ caller[c].pc = "ready"
  /\ CountAtCheck < APOLLO_RPM
  /\ _request_count' = CountAtCheck + 1
  /\ _window_start' = StartAtCheck
  /\ admitted' = Append(admitted, now)
  /\ UNCHANGED <<now, caller>>
  /\ GateFrame

(* _throttle with the count at the ceiling: up to "await asyncio.sleep(wait)" *)
ThrottleSleep(c) ==
  /\ pc = "gate" /\ caller[c].pc = "ready"
  /\ CountAtCheck >= APOLLO_RPM
  /\ LET wait == WINDOW - (now - StartAtCheck)
     IN  caller' = [caller EXCEPT ![c] = [pc |-> "sleeping", wake |-> now + wait]]
  /\ _request_count' = CountAtCheck
  /\ _window_start' = StartAtCheck
  /\ UNCHANGED <<now, admitted>>
  /\ GateFrame

(* _throttle after the sleep: count and window restarted, then the increment *)
ThrottleWake(c) ==
  /\ pc = "gate" /\ caller[c].pc = "sleeping"
  /\ now >= caller[c].wake
  /\ _request_count' = 0 + 1
  /\ _window_start' = now
  /\ admitted' = Append(admitted, now)
  /\ caller' = [caller EXCEPT ![c] = Awake]
  /\ UNCHANGED now
  /\ GateFrame

(* the clock advances; admissions older than the window are forgotten *)
Tick ==
  /\ pc = "gate"
  /\ now + TickStep <= MaxTime
  /\ now' = now + TickStep
  /\ admitted' = SelectSeq(admitted, LAMBDA t : now + TickStep - t < WINDOW)
  /\ UNCHANGED <<_request_count, _window_start, caller>>
  /\ GateFrame

NextGate ==
  \/ \E c \in Callers : ThrottleAdmit(c)
  \/ \E c \in Callers : ThrottleSleep(c)
  \/ \E c \in Callers : ThrottleWake(c)
  \/ Tick

SpecGate == InitGate /\ [][NextGate]_vars

---------------------------------------------------------------------------
(* enrich_leads.py: hunter_search(domain), the Hunter domain search with   *)
(* retries, and the row update of run().                                   *)

TARGET_TITLES ==
  << <<"owner">>, <<"founder">>, <<"president">>, <<"ceo">>, <<"co-owner">>,
     <<"partner">> >>

MAX_RETRIES == 3

(* Hunter's entries carry a confidence score *)
Scored(c, confidence) ==
  [first_name |-> c.first_name, last_name |-> c.last_name, title |-> c.title,
   email |-> c.email, confidence |-> confidence]

ScoredCandidates ==
  { Scored(Cand(<<>>, <<"Bob">>, <<>>, <<"CEO">>,    <<"bob@x">>), 90),
    Scored(Cand(<<>>, <<"Gus">>, <<>>, <<"Owner">>,  <<"gus@x">>), 50),
    Scored(Cand(<<>>, <<"Hal">>, <<>>, <<"Owner">>,  <<"hal@x">>), 90),
    Scored(Cand(<<>>, <<"Ivy">>, <<>>, <<"Owner">>,  <<"ivy@x">>), 90),
    Scored(Cand(<<>>, <<"Cy">>,  <<>>, <<"Owner">>,  <<>>),        95),
    Scored(Cand(<<>>, <<"Di">>,  <<>>, <<"Intern">>, <<"di@x">>),  99) }

ScoredLists == UNION { [1..n -> ScoredCandidates] : n \in 0..MaxCands }

(* the answer to one attempt: 429, 403, another HTTP error, an exception   *)
(* (network, JSON, a body that is no dict), or a list of entries           *)
AttemptResponses ==
  { [kind |-> k, items |-> <<>>] :
      k \in {"rate_limited", "forbidden", "http_error", "exception"} }
    \cup { [kind |-> "ok", items |-> l] : l \in ScoredLists }

RetriedResponses ==
  { [kind |-> k, items |-> <<>>] : k \in {"rate_limited", "http_error"} }

(* the answers to the attempts of one call: attempts that are retried,     *)
(* then the answer that ends the call (a 403, a body, or any answer to     *)
(* the last attempt)                                                       *)
AttemptSeqs ==
  { s \in { pre \o <<r>> :
              pre \in UNION { [1..n -> RetriedResponses] : n \in 0..(MAX_RETRIES - 1) },
              r \in AttemptResponses } :
      s[Len(s)].kind \in {"ok", "forbidden"} \/ Len(s) = MAX_RETRIES }

title_score(e) ==
  IF MatchesAny(e.title, TARGET_TITLES)
    THEN (CHOOSE i \in 1..Len(TARGET_TITLES) :
            /\ Contains(TARGET_TITLES[i], Lower(e.title))
            /\ \A j \in 1..(i - 1) : ~Contains(TARGET_TITLES[j], Lower(e.title))) - 1
    ELSE Len(TARGET_TITLES)

(* a key under which the lowest confidence sorts first *)
hunter_search_rank_ascending(e) == <<title_score(e), e.confidence>>

(* rank(e) of hunter_search: (title_score, -confidence) *)
hunter_search_rank(e) == <<title_score(e), 0 - e.confidence>>

(* tuple comparison a <= b *)
KeyLeq(a, b) == a[1] < b[1] \/ (a[1] = b[1] /\ a[2] <= b[2])

(* sorted(emails, key=rank) *)
RECURSIVE InsertByKey(_, _)
InsertByKey(x, sorted) ==
  IF sorted = <<>> THEN <<x>>
  ELSE IF KeyLeq(hunter_search_rank(Head(sorted)), hunter_search_rank(x))
         THEN <<Head(sorted)>> \o InsertByKey(x, Tail(sorted))
         ELSE <<x>> \o sorted

RECURSIVE SortedByKey(_)
SortedByKey(emails) ==
  IF emails = <<>> THEN <<>>
  ELSE InsertByKey(emails[Len(emails)], SortedByKey(SubSeq(emails, 1, Len(emails) - 1)))

(* hunter_search from attempt number `attempt` on *)
RECURSIVE HunterAttempt(_, _)
HunterAttempt(resps, attempt) ==
  IF attempt > MAX_RETRIES THEN EmptyDict
  ELSE
    LET resp == resps[attempt]
    IN  IF resp.kind = "rate_limited" THEN HunterAttempt(resps, attempt + 1)
        ELSE IF resp.kind = "forbidden" THEN EmptyDict
        ELSE IF resp.kind \in {"http_error", "exception"}
          THEN IF attempt < MAX_RETRIES THEN HunterAttempt(resps, attempt + 1)
                                        ELSE EmptyDict
        ELSE IF resp.items = <<>> THEN EmptyDict
        ELSE
          LET best  == SortedByKey(resp.items)[1]
              email == Strip(best.email)
          IN  IF ~Truthy(email) THEN EmptyDict
              ELSE [name       |-> FullName(Strip(best.first_name), Strip(best.last_name)),
                    title      |-> Strip(best.title),
                    email      |-> email,
                    confidence |-> best.confidence]

hunter_search(resps) == HunterAttempt(resps, 1)

(* run(): a row that needs enrichment, and what the loop does with the     *)
(* result of hunter_search                                                 *)
NewRow ==
  [owner_name |-> <<>>, owner_title |-> <<>>, owner_email |-> <<>>,
   email_source |-> <<>>]

UpdateRow(row, result) ==
  IF result # EmptyDict
    THEN [row EXCEPT !.owner_name = result.name, !.owner_title = result.title,
                     !.owner_email = result.email, !.email_source = <<"hunter">>]
    ELSE [row EXCEPT !.email_source = NOT_FOUND]

---------------------------------------------------------------------------
(* domain_bridge.py: the skip list and search_domain_one.  A URL is given  *)
(* as tldextract splits it: the subdomain and the registrable part         *)
(* (domain and suffix, as written in the URL; <<>> when there is none).    *)

SKIP_DOMAINS ==
  { <<"machinerytrader.com">>, <<"ironplanet.com">>, <<"equipmenttrader.com">>,
    <<"yellowpages.com">>, <<"yelp.com">>, <<"facebook.com">>, <<"linkedin.com">>,
    <<"instagram.com">>, <<"twitter.com">>, <<"x.com">>, <<"bbb.org">>,
    <<"manta.com">>, <<"bizapedia.com">>, <<"dnb.com">>, <<"zoominfo.com">>,
    <<"indeed.com">>, <<"glassdoor.com">>, <<"bloomberg.com">>, <<"mapquest.com">>,
    <<"google.com">>, <<"bing.com">>, <<"duckduckgo.com">>,
    <<"wikipedia.org">>, <<"wikidata.org">>,
    <<"apple.com">>, <<"maps.", "apple.com">> }

Url(subdomain, registrable) == [subdomain |-> subdomain, registrable |-> registrable]

NoUrl == Url(<<>>, <<>>)

Urls ==
  { Url(<<"www.">>,  <<"beta.com">>),
    Url(<<"m.">>,    <<"FACEBOOK.COM">>),
    Url(<<"maps.">>, <<"apple.com">>),
    Url(<<>>,        <<"my", "facebook.com">>),
    Url(<<"www.">>,  <<"netfli", "x.com">>),
    NoUrl }

(* a search hit carries its URL under "href", or under "url" *)
Hits ==
  { [href |-> u, url |-> NoUrl] : u \in Urls }
    \cup { [href |-> NoUrl, url |-> Url(<<>>, <<"yelp.com">>)] }

HitLists == UNION { [1..n -> Hits] : n \in 0..MaxCands }

SearchResponses ==
  { [kind |-> "exception", items |-> <<>>] }
    \cup { [kind |-> "ok", items |-> l] : l \in HitLists }

(* extract_root_domain: f"{ext.domain}.{ext.suffix}".lower(), or "" *)
extract_root_domain(url) ==
  IF Truthy(url.registrable) THEN Lower(url.registrable) ELSE <<>>

is_valid_result(domain, skip_set) ==
  Truthy(domain) /\ domain \notin skip_set

(* search_domain_one: [raised, domain]; an error of ddgs.text is raised *)
search_domain_one(resp, skip_set) ==
  IF resp.kind = "exception" THEN [raised |-> TRUE, domain |-> <<>>]
  ELSE
    LET href(hit) == IF hit.href # NoUrl THEN hit.href ELSE hit.url
        valid == SelectSeq(resp.items,
                   LAMBDA hit : is_valid_result(extract_root_domain(href(hit)), skip_set))
    IN  [raised |-> FALSE,
         domain |-> IF valid = <<>> THEN <<>> ELSE extract_root_domain(href(valid[1]))]

---------------------------------------------------------------------------
(* One call of a selection function, on a provider answer drawn from the   *)
(* answers the provider can give.  arg is the call (the function and its   *)
(* argument), ret what the function returned.                              *)

(* the candidates of the other sections, a second operations title, an     *)
(* entry without title and address, and a second owner                     *)
RankCandidates ==
  Candidates \cup
    { Cand(<<"p6">>, <<"Eve">>, <<>>, <<"Logistics", " ", "Lead">>, <<"eve@x">>),
      Cand(<<"p7">>, <<"Flo">>, <<>>, <<>>, <<>>),
      Cand(<<"p8">>, <<"Gus">>, <<>>, <<"Owner">>, <<"gus@x">>) }

RankLists == UNION { [1..n -> RankCandidates] : n \in 0..MaxCands }

RankResponses ==
  { [kind |-> k, items |-> <<>>] : k \in FailKinds }
    \cup { [kind |-> "ok", items |-> l] : l \in RankLists }

ApolloRankers == {"cms", "fmcsa", "dealer"}

(* bare host names handed to the domain gate, in any letter case *)
GateInputs ==
  DomainSet \cup
    { <<"Yelp.Com">>, <<"shop.", "Yelp.Com">>, <<"not", "facebook.com">>,
      <<"BETA.COM">>, <<"WWW.", "BETA.COM">> }

CallFrame ==
  UNCHANGED <<pipeline, arg, keyVars, runVars, pageVars, records, input, max_api_calls, api_calls,
              valid_for_enrichment, enriched_map, pos, final_records, netCalls,
              hist, concVars, gateVars>>

InitCall ==
  /\ PageIdle
  /\ RunIdle
  /\ APOLLO_API_KEY = TRUE
  /\ HUNTER_API_KEY = TRUE
  /\ records = <<>> /\ input = <<>> /\ pc = "call"
  /\ netCalls = 0 /\ hist = <<>>
  /\ SeqIdle /\ ConcIdle /\ GateIdle
  /\ ret = <<>>
  /\ \/ /\ pipeline \in {"cpg", "dental"}
        /\ arg \in { [fn |-> "enrich_via_hunter", value |-> r] : r \in RankResponses }
     \/ /\ pipeline \in ApolloRankers
        /\ arg \in { [fn |-> "enrich_via_apollo", value |-> r] : r \in RankResponses }
     \/ /\ pipeline = "enrich_leads"
        /\ arg \in { [fn |-> "hunter_search", value |-> a] : a \in AttemptSeqs }
     \/ /\ pipeline = "cpg"
        /\ arg \in { [fn |-> "_is_aggregator_domain", value |-> d] : d \in GateInputs }
     \/ /\ pipeline = "domain_bridge"
        /\ arg \in { [fn |-> "search_domain_one", value |-> r] : r \in SearchResponses }
     \/ /\ pipeline \in {"cpg", "cms"}
        /\ arg \in { [fn |-> "discover_domains", value |-> r] : r \in DiscoverResponses }

(* CPG enrich_via_hunter from the answer of the domain search on *)
CallCpgHunter ==
  /\ pc = "call" /\ pipeline = "cpg" /\ arg.fn = "enrich_via_hunter"
  /\ ret' = CpgHunterResult(arg.value)
  /\ pc' = "returned"
  /\ CallFrame

(* Dental enrich_via_hunter from the answer of the domain search on *)
CallDentalHunter ==
  /\ pc = "call" /\ pipeline = "dental" /\ arg.fn = "enrich_via_hunter"
  /\ ret' = DentalHunterResult(arg.value)
  /\ pc' = "returned"
  /\ CallFrame

(* CMS, FMCSA, dealer enrich_via_apollo from the answer of the people      *)
(* search on, for the organization "org1"                                  *)
CallApolloPeople ==
  /\ pc = "call" /\ pipeline \in ApolloRankers /\ arg.fn = "enrich_via_apollo"
  /\ ret' = ApolloPeopleStep(pipeline, <<"org1">>, arg.value)
  /\ pc' = "returned"
  /\ CallFrame

(* hunter_search(domain) is called and returns *)
CallHunterSearch ==
  /\ pc = "call" /\ pipeline = "enrich_leads" /\ arg.fn = "hunter_search"
  /\ ret' = hunter_search(arg.value)
  /\ pc' = "returned"
  /\ CallFrame

(* CPG _is_aggregator_domain(domain) *)
CallIsAggregator ==
  /\ pc = "call" /\ pipeline = "cpg" /\ arg.fn = "_is_aggregator_domain"
  /\ ret' = _is_aggregator_domain(arg.value)
  /\ pc' = "returned"
  /\ CallFrame

(* domain_bridge search_domain_one(ddgs, query, SKIP_DOMAINS) *)
CallSearchDomainOne ==
  /\ pc = "call" /\ pipeline = "domain_bridge" /\ arg.fn = "search_domain_one"
  /\ ret' = search_domain_one(arg.value, SKIP_DOMAINS)
  /\ pc' = "returned"
  /\ CallFrame

(* CPG discover_domains, one iteration: the website the record gets *)
CallDiscoverClearbit ==
  /\ pc = "call" /\ pipeline = "cpg" /\ arg.fn = "discover_domains"
  /\ ret' = ClearbitDomain(arg.value)
  /\ pc' = "returned"
  /\ CallFrame

(* CMS discover_domains, one iteration: the website the record gets *)
CallDiscoverDdg ==
  /\ pc = "call" /\ pipeline = "cms" /\ arg.fn = "discover_domains"
  /\ ret' = DdgDomain(arg.value)
  /\ pc' = "returned"
  /\ CallFrame

NextCall ==
  \/ CallDiscoverClearbit
  \/ CallDiscoverDdg
  \/ CallCpgHunter
  \/ CallDentalHunter
  \/ CallApolloPeople
  \/ CallHunterSearch
  \/ CallIsAggregator
  \/ CallSearchDomainOne

SpecCall == InitCall /\ [][NextCall]_vars

---------------------------------------------------------------------------
(* domain_bridge.py: run(input_file, output_file).  The input file is read *)
(* with pd.read_csv(dtype=str).fillna(""), every row without website is    *)
(* searched (three queries, MAX_RETRIES attempts each), and the DataFrame  *)
(* is written to the output file after every row and once more at the end. *)

MaxRows == 2

(* the texts read_csv takes for a missing value, whatever the dtype *)
NA_VALUES ==
  { <<>>, <<"#N/A">>, <<"#N/A N/A">>, <<"#NA">>, <<"-1.#IND">>, <<"-1.#QNAN">>,
    <<"-NaN">>, <<"-nan">>, <<"1.#IND">>, <<"1.#QNAN">>, <<"<NA>">>, <<"N/A">>,
    <<"NA">>, <<"NULL">>, <<"NaN">>, <<"None">>, <<"n/a">>, <<"nan">>, <<"null">> }

(* one cell through pd.read_csv(dtype=str).fillna("") *)
ReadCell(text) == IF text \in NA_VALUES THEN <<>> ELSE text

ReadCsv(rows) ==
  [i \in 1..Len(rows) |-> [c \in DOMAIN rows[i] |-> ReadCell(rows[i][c])]]

(* the rows of the input file: a company, and the website column, which is *)
(* empty for a row not yet searched (or when the file has no such column)  *)
BridgeRows ==
  [company : { <<"Acme">>, <<"N/A">> },
   website : { <<>>, <<"old.com">>, <<"N/A">> }]

BridgeFiles == UNION { [1..n -> BridgeRows] : n \in 0..MaxRows }

(* len(build_queries(...)) *)
NumQueries == 3

MAX_RETRIES_BRIDGE == 3

InitBridge ==
  /\ PageIdle
  /\ CallIdle
  /\ pipeline = "domain_bridge"
  /\ APOLLO_API_KEY = FALSE
  /\ HUNTER_API_KEY = FALSE
  /\ records = <<>> /\ input = <<>> /\ pc = "load"
  /\ netCalls = 0 /\ hist = <<>>
  /\ SeqIdle /\ ConcIdle /\ GateIdle
  /\ infile \in BridgeFiles
  /\ df = <<>> /\ outfile = NoFile /\ todo = <<>>
  /\ tier = 0 /\ cur_attempt = 0 /\ searches_used = 0 /\ processed = {}

RunFrame ==
  UNCHANGED <<pipeline, keyVars, records, input, max_api_calls, api_calls,
              valid_for_enrichment, enriched_map, final_records, hist,
              concVars, gateVars, callVars, pageVars, infile>>

(* run up to the search loop: read_csv, the website column, rows_to_search *)
BridgeLoad ==
  /\ pc = "load" /\ pipeline = "domain_bridge"
  /\ df' = ReadCsv(infile)
  /\ todo' = SelectSeq([i \in 1..Len(infile) |-> i], LAMBDA i : df'[i].website = <<>>)
  /\ pos' = 1
  /\ tier' = 1 /\ cur_attempt' = 1
  /\ pc' = IF todo' = <<>> THEN "final_save" ELSE "search"
  /\ UNCHANGED <<outfile, netCalls, searches_used, processed>>
  /\ RunFrame

(* the row is finished: df.at[idx, "website"] = domain *)
BridgeRowDone(domain) ==
  /\ df' = [df EXCEPT ![todo[pos]].website = domain]
  /\ pc' = "checkpoint"
  /\ UNCHANGED <<tier, cur_attempt>>

(* the next query, or the row is finished without domain *)
BridgeNextQuery ==
  IF tier < NumQueries
    THEN /\ tier' = tier + 1 /\ cur_attempt' = 1
         /\ UNCHANGED <<df, pc>>
    ELSE BridgeRowDone(<<>>)

(* one call of search_domain_one inside the retry loop *)
BridgeSearch ==
  /\ pc = "search" /\ pipeline = "domain_bridge"
  /\ \E resp \in SearchResponses :
       LET r == search_domain_one(resp, SKIP_DOMAINS)
       IN  IF r.raised
             THEN IF cur_attempt < MAX_RETRIES_BRIDGE
                    THEN /\ cur_attempt' = cur_attempt + 1
                         /\ UNCHANGED <<df, pc, tier>>
                    ELSE BridgeNextQuery
           ELSE IF Truthy(r.domain) THEN BridgeRowDone(r.domain)
           ELSE BridgeNextQuery
  /\ netCalls' = netCalls + 1
  /\ UNCHANGED <<outfile, todo, pos, searches_used, processed>>
  /\ RunFrame

(* df.to_csv(output_file): the file is opened for writing, which empties it *)
BridgeCheckpointOpen ==
  /\ pc = "checkpoint" /\ pipeline = "domain_bridge"
  /\ outfile' = [exists |-> TRUE, rows |-> <<>>]
  /\ pc' = "writing"
  /\ UNCHANGED <<df, todo, pos, tier, cur_attempt, netCalls, searches_used, processed>>
  /\ RunFrame

(* df.to_csv(output_file) completes; the loop goes to the next row *)
BridgeCheckpointWritten ==
  /\ pc = "writing" /\ pipeline = "domain_bridge"
  /\ outfile' = [exists |-> TRUE, rows |-> df]
  /\ processed' = processed \cup {todo[pos]}
  /\ IF pos < Len(todo)
       THEN /\ pos' = pos + 1 /\ pc' = "search"
       ELSE /\ pos' = pos /\ pc' = "final_save"
  /\ tier' = 1 /\ cur_attempt' = 1
  /\ UNCHANGED <<df, todo, netCalls, searches_used>>
  /\ RunFrame

(* the final df.to_csv(output_file) opens the file *)
BridgeFinalOpen ==
  /\ pc = "final_save" /\ pipeline = "domain_bridge"
  /\ outfile' = [exists |-> TRUE, rows |-> <<>>]
  /\ pc' = "final_writing"
  /\ UNCHANGED <<df, todo, pos, tier, cur_attempt, netCalls, searches_used, processed>>
  /\ RunFrame

(* the final write completes, then the summary: found/total*100 raises     *)
(* ZeroDivisionError for a file without rows                               *)
BridgeFinalWritten ==
  /\ pc = "final_writing" /\ pipeline = "domain_bridge"
  /\ outfile' = [exists |-> TRUE, rows |-> df]
  /\ pc' = IF Len(df) = 0 THEN "crashed" ELSE "done"
  /\ UNCHANGED <<df, todo, pos, tier, cur_attempt, netCalls, searches_used, processed>>
  /\ RunFrame

(* the process dies (killed, power loss, an error of to_csv); a write in   *)
(* progress leaves the rows it had written so far                          *)
BridgeCrash ==
  /\ pc \in {"search", "checkpoint", "writing", "final_save", "final_writing"}
  /\ pipeline = "domain_bridge"
  /\ pc' = "crashed"
  /\ IF pc \in {"writing", "final_writing"}
       THEN \E n \in 0..Len(df) : outfile' = [exists |-> TRUE, rows |-> SubSeq(df, 1, n)]
       ELSE UNCHANGED outfile
  /\ UNCHANGED <<df, todo, pos, tier, cur_attempt, netCalls, searches_used, processed>>
  /\ RunFrame

NextBridge ==
  \/ BridgeLoad
  \/ BridgeSearch
  \/ BridgeCheckpointOpen
  \/ BridgeCheckpointWritten
  \/ BridgeFinalOpen
  \/ BridgeFinalWritten
  \/ BridgeCrash

SpecBridge == InitBridge /\ [][NextBridge]_vars

---------------------------------------------------------------------------
(* enrich_leads.py: run(input_file, output_file), request by request.      *)
(* arg is the answer to the last request, ret what hunter_search returned, *)
(* cur_attempt the attempt number inside hunter_search.                    *)

LeadRows ==
  [website      : { <<>>, <<"beta.com">> },
   owner_name   : { <<>>, <<"Al">> },
   owner_title  : { <<>> },
   owner_email  : { <<>> },
   email_source : { <<>> }]

LeadFiles == UNION { [1..n -> LeadRows] : n \in 0..MaxRows }

InitLeads ==
  /\ PageIdle
  /\ pipeline = "enrich_leads"
  /\ APOLLO_API_KEY = FALSE
  /\ HUNTER_API_KEY \in BOOLEAN
  /\ records = <<>> /\ input = <<>> /\ pc = "load"
  /\ netCalls = 0 /\ hist = <<>>
  /\ SeqIdle /\ ConcIdle /\ GateIdle
  /\ arg = <<>> /\ ret = <<>>
  /\ infile \in LeadFiles
  /\ df = <<>> /\ outfile = NoFile /\ todo = <<>>
  /\ tier = 0 /\ cur_attempt = 0 /\ searches_used = 0 /\ processed = {}

LeadsFrame ==
  UNCHANGED <<pipeline, keyVars, records, input, max_api_calls, api_calls,
              valid_for_enrichment, enriched_map, final_records, hist,
              concVars, gateVars, pageVars, infile, tier>>

(* run up to the loop: SystemExit without key, read_csv, needs_enrich, and *)
(* the early to_csv when nothing needs enrichment                          *)
LeadsLoad ==
  /\ pc = "load" /\ pipeline = "enrich_leads"
  /\ IF ~HUNTER_API_KEY
       THEN /\ pc' = "exit"
            /\ UNCHANGED <<df, todo, outfile, cur_attempt>>
       ELSE /\ df' = ReadCsv(infile)
            /\ todo' = SelectSeq([i \in 1..Len(infile) |-> i],
                                 LAMBDA i : /\ df'[i].website # <<>>
                                            /\ df'[i].owner_name = <<>>
                                            /\ df'[i].owner_email = <<>>)
            /\ IF todo' = <<>>
                 THEN /\ outfile' = [exists |-> TRUE, rows |-> df']
                      /\ pc' = "done"
                      /\ UNCHANGED cur_attempt
                 ELSE /\ pc' = "search"
                      /\ cur_attempt' = 1
                      /\ UNCHANGED outfile
  /\ pos' = 1
  /\ UNCHANGED <<netCalls, searches_used, processed, arg, ret>>
  /\ LeadsFrame

(* a retry loop that goes on after the last attempt *)
RetriedUnbounded(resp, n) ==
  resp.kind \in {"rate_limited", "http_error", "exception"}

(* hunter_search: the answer to attempt n sends the loop to attempt n + 1 *)
Retried(resp, n) ==
  /\ resp.kind \in {"rate_limited", "http_error", "exception"}
  /\ n < MAX_RETRIES

(* hunter_search: one requests.get and what the loop does with the answer *)
LeadsRequest ==
  /\ pc = "search" /\ pipeline = "enrich_leads"
  /\ \E resp \in AttemptResponses :
       /\ arg' = resp
       /\ IF Retried(resp, cur_attempt)
            THEN /\ cur_attempt' = cur_attempt + 1
                 /\ UNCHANGED <<pc, ret>>
            ELSE /\ ret' = HunterAttempt([i \in 1..cur_attempt |-> resp], cur_attempt)
                 /\ pc' = "returned"
                 /\ UNCHANGED cur_attempt
  /\ netCalls' = netCalls + 1
  /\ UNCHANGED <<df, todo, pos, outfile, searches_used, processed>>
  /\ LeadsFrame

(* run: searches_used += 1, the row update, the checkpoint, the next row *)
LeadsRowUpdate ==
  /\ pc = "returned" /\ pipeline = "enrich_leads"
  /\ searches_used' = searches_used + 1
  /\ df' = [df EXCEPT ![todo[pos]] = UpdateRow(df[todo[pos]], ret)]
  /\ outfile' = [exists |-> TRUE, rows |-> df']
  /\ processed' = processed \cup {todo[pos]}
  /\ IF pos < Len(todo)
       THEN /\ pos' = pos + 1 /\ pc' = "search" /\ cur_attempt' = 1
       ELSE /\ pos' = pos /\ pc' = "final_save" /\ UNCHANGED cur_attempt
  /\ UNCHANGED <<todo, netCalls, arg, ret>>
  /\ LeadsFrame

(* the final to_csv and the summary *)
LeadsFinalSave ==
  /\ pc = "final_save" /\ pipeline = "enrich_leads"
  /\ outfile' = [exists |-> TRUE, rows |-> df]
  /\ pc' = "done"
  /\ UNCHANGED <<df, todo, pos, cur_attempt, netCalls, searches_used, processed,
                 arg, ret>>
  /\ LeadsFrame

NextLeads ==
  \/ LeadsLoad
  \/ LeadsRequest
  \/ LeadsRowUpdate
  \/ LeadsFinalSave

SpecLeads == InitLeads /\ [][NextLeads]_vars

(* requests.get has timeout=15 and every sleep is finite: a started run    *)
(* goes on until it ends                                                   *)
FairSpecLeads == SpecLeads /\ WF_vars(NextLeads)

---------------------------------------------------------------------------
(* dealer_playwright_scraper.py: DealerScraper._run_pagination, page by    *)
(* page.  A company name is a sequence of words, blanks and punctuation.   *)

MaxPages == 2

MaxCards == 2

LEGAL_SUFFIXES == {"inc", "llc", "ltd", "co", "corp", "company", "equipment"}

(* the characters [^a-z0-9\s] removes *)
PUNCTUATION == {".", ",", "&", "-", "'"}

(* re.sub(r'\b(inc|llc|ltd|co|corp|company|equipment)\b\.?', '', s) *)
RECURSIVE StripSuffixes(_)
StripSuffixes(s) ==
  IF s = <<>> THEN <<>>
  ELSE IF Head(s) \in LEGAL_SUFFIXES
    THEN IF Len(s) > 1 /\ s[2] = "." THEN StripSuffixes(Tail(Tail(s)))
                                     ELSE StripSuffixes(Tail(s))
  ELSE <<Head(s)>> \o StripSuffixes(Tail(s))

(* re.sub(r'\s+', ' ', s) *)
RECURSIVE CollapseBlanks(_)
CollapseBlanks(s) ==
  IF s = <<>> THEN <<>>
  ELSE IF Head(s) = " " /\ Len(s) > 1 /\ s[2] = " " THEN CollapseBlanks(Tail(s))
  ELSE <<Head(s)>> \o CollapseBlanks(Tail(s))

_normalize_company(name) ==
  LET s1 == Strip(Lower(name))
      s2 == StripSuffixes(s1)
      s3 == SelectSeq(s2, LAMBDA a : a \notin PUNCTUATION)
  IN  Strip(CollapseBlanks(s3))

(* the records _parse_page returns for one page: company is never empty *)
DealerCards ==
  [company : { <<"Acme", " ", "Inc", ".">>, <<"ACME">>, <<"Bolt", " ", "&", " ", "Sons">>,
               <<"Equipment", " ", "Co">> },
   phone   : { <<"555-1">>, <<"555-2">> }]

PageRecords == UNION { [1..n -> DealerCards] : n \in 0..MaxCards }

InitPages ==
  /\ CallIdle /\ RunIdle
  /\ pipeline = "dealer"
  /\ APOLLO_API_KEY = FALSE
  /\ HUNTER_API_KEY = FALSE
  /\ records = <<>> /\ input = <<>> /\ pc = "parse"
  /\ netCalls = 0 /\ hist = <<>>
  /\ SeqIdle /\ ConcIdle /\ GateIdle
  /\ seen = <<>> /\ page_num = 1 /\ scraped = <<>>

PagesFrame ==
  UNCHANGED <<pipeline, keyVars, input, max_api_calls, api_calls,
              valid_for_enrichment, enriched_map, pos, final_records, netCalls,
              hist, concVars, gateVars, callVars, runVars>>

Keys(d) == { _normalize_company(d[i].company) : i \in 1..Len(d) }

(* a loop body in which a later record replaces the one kept for its key *)
RECURSIVE AddPageOverwriting(_, _)
AddPageOverwriting(d, page_records) ==
  IF page_records = <<>> THEN d
  ELSE
    LET r   == Head(page_records)
        key == _normalize_company(r.company)
    IN  AddPageOverwriting(
          IF key \notin Keys(d)
            THEN Append(d, r)
            ELSE [i \in 1..Len(d) |->
                    IF _normalize_company(d[i].company) = key THEN r ELSE d[i]],
          Tail(page_records))

(* for r in page_records: if key not in seen: seen[key] = r *)
RECURSIVE AddPage(_, _)
AddPage(d, page_records) ==
  IF page_records = <<>> THEN d
  ELSE
    LET r   == Head(page_records)
        key == _normalize_company(r.company)
    IN  AddPage(IF key \notin Keys(d) THEN Append(d, r) ELSE d, Tail(page_records))

(* one turn of the while loop: the page is parsed; the Next button is      *)
(* missing or disabled (return list(seen.values())), or it is clicked      *)
ParsePage ==
  /\ pc = "parse" /\ pipeline = "dealer"
  /\ \E page_records \in PageRecords, last \in BOOLEAN :
       /\ seen' = AddPage(seen, page_records)
       /\ scraped' = scraped \o page_records
       /\ IF last \/ page_num = MaxPages
            THEN /\ records' = seen'
                 /\ pc' = "paged"
                 /\ UNCHANGED page_num
            ELSE /\ page_num' = page_num + 1
                 /\ UNCHANGED <<records, pc>>
  /\ PagesFrame

(* page.goto, _parse_page, click or wait_for_selector raises (a timeout):  *)
(* _run_pagination returns nothing                                         *)
PageError ==
  /\ pc = "parse" /\ pipeline = "dealer"
  /\ pc' = "raised"
  /\ UNCHANGED <<records, seen, page_num, scraped>>
  /\ PagesFrame

NextPages ==
  \/ ParsePage
  \/ PageError

SpecPages == InitPages /\ [][NextPages]_vars

---------------------------------------------------------------------------
(* Claims about the sequential bridge pipelines *)

(* C1: after enrich_all the final list has as many rows as the input and   *)
(* holds every input entity exactly once, also when two entities share the *)
(* key of enriched_map.                                                     *)
C1_EveryEntityExactlyOnce ==
  SeqDone =>
    /\ Len(final_records) = Len(records)
    /\ \A id \in 1..Len(records) :
         Cardinality({ i \in 1..Len(final_records) : final_records[i] = id }) = 1

(* C2: every record handed to CSV export has a non-empty email_source.     *)
C2_ProvenanceNeverEmpty ==
  SeqDone => \A i \in 1..Len(Exported) : Truthy(Exported[i].email_source)

(* C3: an entity that went through enrichment and ends with an empty       *)
(* contact email carries exactly the tag "not_found".                       *)
C3_NoEmailMeansNotFound ==
  \A id \in 1..Len(records) :
    (hist[id].entered /\ ~Truthy(records[id].contact_email))
      => records[id].email_source = NOT_FOUND

(* C5: with a hard cap of N provider calls, the number of provider network *)
(* calls of the run never exceeds N (CMS: N is MAX_ENRICHMENT_ATTEMPTS).   *)
C5_CallsWithinCap ==
  /\ (pipeline \in {"cpg", "hvac", "dental"} /\ max_api_calls # 0)
       => netCalls <= max_api_calls
  /\ pipeline = "cms" => netCalls <= MAX_ENRICHMENT_ATTEMPTS

(* C6: once the hard cap is reached enrich_all stops, and every entity not *)
(* yet processed is returned with name, title and email unchanged and with *)
(* the tag "not_found".                                                     *)
C6_CapLeavesRestNotFound ==
  (SeqDone /\ CapReached) =>
    \A k \in pos..Len(valid_for_enrichment) :
      LET id == valid_for_enrichment[k]
      IN  /\ \E i \in 1..Len(final_records) : final_records[i] = id
          /\ records[id].contact_name = input[id].contact_name
          /\ records[id].contact_title = input[id].contact_title
          /\ records[id].contact_email = input[id].contact_email
          /\ records[id].email_source = NOT_FOUND


---------------------------------------------------------------------------
(* Claims about client.enrich with two providers (Apollo, then Hunter) *)

ContactFields == {"contact_name", "contact_title", "contact_email"}

(* the entities whose enrich call has returned the record *)
Enriched == { id \in Ids : task[id].pc = "returned" }

HunterCalled(id) == \E i \in 1..Len(hist[id].log) : hist[id].log[i] = "hunter"

ApolloCalled(id) == \E i \in 1..Len(hist[id].log) : hist[id].log[i] # "hunter"

(* C4: after an Apollo-then-Hunter enrich, email_source names the provider  *)
(* that supplied the final email: "hunter" when the email is Hunter's,      *)
(* "apollo" only when the email is Apollo's.                                *)
C4_SourceNamesSupplier ==
  \A id \in Enriched :
    LET rec == records[id]
        a   == Get(hist[id].apollo, "contact_email")
        h   == Get(hist[id].hunter, "contact_email")
    IN  Truthy(rec.contact_email) =>
          /\ (~Truthy(a) /\ rec.contact_email = h) => rec.email_source = <<"hunter">>
          /\ (Truthy(a) /\ rec.contact_email = a) => rec.email_source = <<"apollo">>

(* C8: in the merge of the two providers' results a field Apollo filled     *)
(* keeps Apollo's value, and a field Apollo left empty takes the value      *)
(* Hunter returned for it.                                                  *)
C8_ApolloWinsHunterFills ==
  \A id \in Enriched :
    \A f \in ContactFields :
      LET a == Get(hist[id].apollo, f)
          h == Get(hist[id].hunter, f)
      IN  /\ Truthy(a) => records[id][f] = a
          /\ (~Truthy(a) /\ Truthy(h)) => records[id][f] = h

(* C8 case: Apollo and Hunter both returned a title, different ones, and    *)
(* only Hunter returned an email                                            *)
C8_Witness ==
  \E id \in Enriched :
    LET a == hist[id].apollo
        h == hist[id].hunter
    IN  /\ Truthy(Get(a, "contact_title")) /\ Truthy(Get(h, "contact_title"))
        /\ Get(a, "contact_title") # Get(h, "contact_title")
        /\ ~Truthy(Get(a, "contact_email")) /\ Truthy(Get(h, "contact_email"))
        /\ records[id].contact_title = Get(a, "contact_title")
        /\ records[id].contact_email = Get(h, "contact_email")

(* C9: within one enrich the Apollo requests all precede the Hunter         *)
(* request, and no Hunter request is made once Apollo returned an email.    *)
C9_ApolloThenHunter ==
  \A id \in Ids :
    LET log == hist[id].log
    IN  /\ \A i, j \in 1..Len(log) : (i < j /\ log[i] = "hunter") => log[j] = "hunter"
        /\ Truthy(Get(hist[id].apollo, "contact_email")) => ~HunterCalled(id)

(* C9 case: Apollo returned an email for an entity whose domain is known,   *)
(* the Hunter key is set, and enrich returned without a Hunter request      *)
C9_Witness ==
  \E id \in Enriched :
    /\ ApolloCalled(id)
    /\ Truthy(Get(hist[id].apollo, "contact_email"))
    /\ Truthy(EnrichDomain(pipeline, records[id])) /\ HUNTER_API_KEY
    /\ ~HunterCalled(id)

---------------------------------------------------------------------------
(* Claims about the concurrent pipelines *)

ConcDone == pc = "done"

(* C7: a provider call that fails leaves enrich without an exception, and   *)
(* every entity handed to _enrich_all is in the list it returns.            *)
C7_FailureKeepsEntity ==
  /\ \A id \in Ids : ~hist[id].raised
  /\ ConcDone => \A id \in Ids : id \in Range(returned)


---------------------------------------------------------------------------
(* Claims about the rate gate *)

(* the requests _throttle let through during the last 60 seconds *)
AdmittedInWindow == Cardinality({ i \in 1..Len(admitted) : now - admitted[i] < WINDOW })

(* C10: at every moment, the requests admitted by _throttle during the      *)
(* 60 seconds that end at that moment number at most APOLLO_RPM, whichever  *)
(* tasks asked for them.                                                    *)
C10_RollingWindowBound == AdmittedInWindow <= APOLLO_RPM


(* C11: the counter and the window start are updated together, whatever     *)
(* the interleaving at the await inside _throttle: a request admitted       *)
(* while the current window has not run out adds one to the counter, so     *)
(* no task coming back from its sleep wipes out an admission another task   *)
(* made in the window that is still current.                                *)
C11_NoAdmissionResetAway ==
  [][(admitted' = Append(admitted, now) /\ ~WindowElapsed)
       => _request_count' = _request_count + 1]_vars


---------------------------------------------------------------------------
(* Claims about the semaphore of _enrich_all *)

(* the entities whose task is inside "async with sem", in client.enrich *)
InEnrich == { id \in DOMAIN records : task[id].pc \in {"org", "people"} }

Finished(id) == task[id].pc \in {"done", "raised"}

(* C12: while _enrich_all runs, at most MAX_ENRICHMENT_CONCURRENCY          *)
(* entities are inside client.enrich and each of them holds one permit;     *)
(* client.enrich is entered once per entity; and every task gets its        *)
(* permit and gives it back, also when enrich raises, so that in the end    *)
(* all permits are free again.                                              *)
C12_SemaphoreBound ==
  /\ [](pc = "gather" =>
          /\ Cardinality(InEnrich) <= MAX_ENRICHMENT_CONCURRENCY
          /\ permits = MAX_ENRICHMENT_CONCURRENCY - Cardinality(InEnrich)
          /\ \A id \in DOMAIN records :
               Cardinality({ i \in 1..Len(hist[id].log) : hist[id].log[i] = "apollo_org" }) <= 1)
  /\ (pc = "gather") ~>
       /\ pc = "done" /\ permits = MAX_ENRICHMENT_CONCURRENCY
       /\ \A id \in DOMAIN records : Finished(id) /\ hist[id].entered

(* C12 case: all permits are taken by tasks inside enrich and a further     *)
(* task waits for a permit                                                  *)
C12_Witness ==
  /\ pc = "gather" /\ permits = 0
  /\ Cardinality(InEnrich) = MAX_ENRICHMENT_CONCURRENCY
  /\ \E id \in DOMAIN records : task[id].pc = "created"

---------------------------------------------------------------------------
(* Claims about the selection functions *)

Returned(p, fn) ==
  /\ pc = "returned" /\ pipeline = p /\ arg.fn = fn /\ arg.value.kind = "ok"

IsOps(e)  == \E k \in 1..Len(OPS_KEYWORDS)  : Contains(OPS_KEYWORDS[k],  Lower(e.title))
IsExec(e) == \E k \in 1..Len(EXEC_KEYWORDS) : Contains(EXEC_KEYWORDS[k], Lower(e.title))

(* C13: the CPG ranker returns the first candidate in input order whose    *)
(* lower-cased position contains an operations keyword, tagged hunter_ops, *)
(* whenever there is one; it returns a candidate tagged hunter_exec only   *)
(* when no candidate matches an operations keyword, and then the first     *)
(* candidate whose position contains an executive keyword.                 *)
C13_OpsTierFirst ==
  Returned("cpg", "enrich_via_hunter") =>
    LET emails == arg.value.items
        n      == Len(emails)
    IN  /\ ~ret.raised
        /\ (\E i \in 1..n : IsOps(emails[i])) =>
             \E i \in 1..n :
               /\ IsOps(emails[i])
               /\ \A j \in 1..(i - 1) : ~IsOps(emails[j])
               /\ ret.result = _extract_contact(emails[i], <<"hunter_ops">>)
        /\ Get(ret.result, "email_source") = <<"hunter_exec">> =>
             /\ \A i \in 1..n : ~IsOps(emails[i])
             /\ \E i \in 1..n :
                  /\ IsExec(emails[i])
                  /\ \A j \in 1..(i - 1) : ~IsExec(emails[j])
                  /\ ret.result = _extract_contact(emails[i], <<"hunter_exec">>)

(* an executive is listed before an operations contact, and the operations *)
(* contact is the one returned                                             *)
C13_Witness ==
  /\ Returned("cpg", "enrich_via_hunter")
  /\ Len(arg.value.items) = 2
  /\ IsExec(arg.value.items[1]) /\ ~IsOps(arg.value.items[1])
  /\ IsOps(arg.value.items[2])
  /\ ret.result = _extract_contact(arg.value.items[2], <<"hunter_ops">>)

(* C14: the contact the keyword-ranked selection (CMS, FMCSA, dealer)      *)
(* returns from a non-empty candidate list is a candidate whose priority   *)
(* index is the smallest of the list, and the earliest such candidate in   *)
(* the provider's order.                                                   *)
C14_LowestIndexEarliest ==
  \A p \in ApolloRankers :
    (Returned(p, "enrich_via_apollo") /\ arg.value.items # <<>>) =>
      LET people == arg.value.items
          idx(i) == rank(people[i].title, TitlePriority(p))
      IN  /\ ~ret.raised
          /\ \E i \in 1..Len(people) :
               /\ \A j \in 1..Len(people) : idx(i) <= idx(j)
               /\ \A j \in 1..(i - 1) : idx(i) < idx(j)
               /\ ret.result.contact_title = people[i].title
               /\ ret.result.contact_email = people[i].email
               /\ ret.result.contact_name
                    = FullName(people[i].first_name, people[i].last_name)

(* two candidates share the best priority index, which is that of a        *)
(* keyword, and the first of them in the provider's order is returned      *)
C14_Witness ==
  \E p \in ApolloRankers :
    /\ Returned(p, "enrich_via_apollo")
    /\ Len(arg.value.items) = 2
    /\ arg.value.items[1] # arg.value.items[2]
    /\ rank(arg.value.items[1].title, TitlePriority(p)) # NoRank
    /\ rank(arg.value.items[1].title, TitlePriority(p))
         = rank(arg.value.items[2].title, TitlePriority(p))
    /\ ret.result.contact_name
         = FullName(arg.value.items[1].first_name, arg.value.items[1].last_name)
    /\ ret.result.contact_name
         # FullName(arg.value.items[2].first_name, arg.value.items[2].last_name)

(* the keywords the title ranker of a Hunter pipeline looks for *)
HunterKeywords(p) ==
  IF p = "cpg" THEN OPS_KEYWORDS \o EXEC_KEYWORDS ELSE PRACTICE_MANAGER_KEYWORDS

NoContact(result) ==
  /\ ~Truthy(Get(result, "contact_name"))
  /\ ~Truthy(Get(result, "contact_title"))
  /\ ~Truthy(Get(result, "contact_email"))

IsContact(result, e) ==
  /\ Get(result, "contact_name")  = FullName(e.first_name, e.last_name)
  /\ Get(result, "contact_title") = e.title
  /\ Get(result, "contact_email") = e.email

(* C15: when no candidate's title contains a priority keyword, the         *)
(* selection (CPG, Dental) returns the first candidate with a non-empty    *)
(* title, else the first candidate with a non-empty email, else no contact *)
(* at all; so a single candidate with an email address is returned when    *)
(* no candidate has a title.                                               *)
C15_GenericFallback ==
  \A p \in {"cpg", "dental"} :
    (/\ Returned(p, "enrich_via_hunter")
     /\ arg.value.items # <<>>
     /\ \A i \in 1..Len(arg.value.items) :
          ~MatchesAny(arg.value.items[i].title, HunterKeywords(p))) =>
      LET emails  == arg.value.items
          titled  == SelectSeq(emails, LAMBDA e : Truthy(e.title))
          mailed  == SelectSeq(emails, LAMBDA e : Truthy(e.email))
      IN  /\ ~ret.raised
          /\ IF titled # <<>> THEN IsContact(ret.result, titled[1])
             ELSE IF mailed # <<>> THEN IsContact(ret.result, mailed[1])
             ELSE NoContact(ret.result)

(* the answer hunter_search worked on: the last one of the call *)
LastAnswer == arg.value[Len(arg.value)]

HunterSearchReturned ==
  /\ pc = "returned" /\ pipeline = "enrich_leads" /\ arg.fn = "hunter_search"

(* C16: when the provider's candidate list is empty no contact is          *)
(* selected: the CPG selection returns no name, title or address and the   *)
(* record's contact fields stay empty; hunter_search returns {} and the    *)
(* row's owner fields stay empty.                                          *)
C16_EmptyListNoContact ==
  /\ (Returned("cpg", "enrich_via_hunter") /\ arg.value.items = <<>>) =>
       /\ ~ret.raised
       /\ NoContact(ret.result)
       /\ NoContact(ApplyResult(NewRecord(<<1>>), ret.result))
  /\ (HunterSearchReturned /\ LastAnswer.kind = "ok" /\ LastAnswer.items = <<>>) =>
       /\ ret = EmptyDict
       /\ UpdateRow(NewRow, ret).owner_name = <<>>
       /\ UpdateRow(NewRow, ret).owner_title = <<>>
       /\ UpdateRow(NewRow, ret).owner_email = <<>>

(* the CPG selection has returned from an answer that lists no address *)
C16_Witness ==
  /\ Returned("cpg", "enrich_via_hunter")
  /\ arg.value.items = <<>>
  /\ ret.result = [email_source |-> <<"hunter_no_emails">>]

(* C17: hunter_search chooses a candidate of the best title tier present;  *)
(* among the candidates of that tier the one with the highest confidence,  *)
(* and among equals the earliest in input order.  A candidate of a better  *)
(* tier beats one of a worse tier whatever their confidence.  The chosen   *)
(* candidate is what the function returns when it has an address.          *)
C17_TierThenConfidence ==
  (HunterSearchReturned /\ LastAnswer.kind = "ok" /\ LastAnswer.items # <<>>) =>
    LET emails == LastAnswer.items
        n      == Len(emails)
    IN  \E i \in 1..n :
          /\ \A j \in 1..n : title_score(emails[i]) <= title_score(emails[j])
          /\ \A j \in 1..n :
               title_score(emails[j]) = title_score(emails[i])
                 => emails[j].confidence <= emails[i].confidence
          /\ \A j \in 1..(i - 1) :
               ~(/\ title_score(emails[j]) = title_score(emails[i])
                 /\ emails[j].confidence = emails[i].confidence)
          /\ ret = IF Truthy(Strip(emails[i].email))
                     THEN [name       |-> FullName(Strip(emails[i].first_name),
                                                   Strip(emails[i].last_name)),
                           title      |-> Strip(emails[i].title),
                           email      |-> Strip(emails[i].email),
                           confidence |-> emails[i].confidence]
                     ELSE EmptyDict

(* two candidates of the best tier, the second with the higher confidence, *)
(* and the second is returned                                              *)
C17_Witness ==
  /\ HunterSearchReturned /\ LastAnswer.kind = "ok"
  /\ Len(LastAnswer.items) = 2
  /\ title_score(LastAnswer.items[1]) = title_score(LastAnswer.items[2])
  /\ title_score(LastAnswer.items[1]) < Len(TARGET_TITLES)
  /\ LastAnswer.items[1].confidence < LastAnswer.items[2].confidence
  /\ ret # EmptyDict
  /\ ret.email = LastAnswer.items[2].email
  /\ ret.email # LastAnswer.items[1].email

GateReturned ==
  /\ pc = "returned" /\ pipeline = "cpg" /\ arg.fn = "_is_aggregator_domain"

(* C18: _is_aggregator_domain(d) is true exactly when a denylist entry is  *)
(* a substring of the lower-cased d; it answers the same for d.upper(),    *)
(* and it is false for the empty string.                                   *)
C18_GateCaseInsensitive ==
  GateReturned =>
    /\ ret = (\E i \in 1..Len(AGGREGATOR_DOMAINS) :
                Contains(AGGREGATOR_DOMAINS[i], Lower(arg.value)))
    /\ ret = _is_aggregator_domain(Upper(arg.value))
    /\ arg.value = <<>> => ret = FALSE

(* a host name that holds a denylist entry in upper case is blocked *)
C18_Witness ==
  /\ GateReturned
  /\ ret = TRUE
  /\ arg.value # Lower(arg.value)
  /\ \A i \in 1..Len(AGGREGATOR_DOMAINS) : ~Contains(AGGREGATOR_DOMAINS[i], arg.value)

(* C19: search_domain_one never returns a domain that contains an entry of *)
(* SKIP_DOMAINS as a substring, in any letter case.                        *)
C19_SkipListSubstring ==
  (/\ pc = "returned" /\ pipeline = "domain_bridge"
   /\ arg.fn = "search_domain_one") =>
    \A entry \in SKIP_DOMAINS : ~Contains(entry, Lower(ret.domain))

---------------------------------------------------------------------------
(* Claim about the domain gate in the bridge pipelines *)

(* C20: in the bridge pipelines (CPG, HVAC, Dental, CMS) a request to a    *)
(* contact provider is issued only for an entity whose stored website is   *)
(* non-empty and not blocked by the denylist; a blocked domain is never    *)
(* stored, so an entity whose discovered domain was blocked keeps an empty *)
(* website and no provider request is issued for it.                       *)
C20_RequestsOnlyForUsableDomains ==
  \A id \in DOMAIN records :
    /\ ~_is_aggregator_domain(records[id].website)
    /\ hist[id].log # <<>> =>
         /\ Truthy(records[id].website)
         /\ ~_is_aggregator_domain(records[id].website)
    /\ ~Truthy(records[id].website) => ~hist[id].entered /\ hist[id].log = <<>>

(* the run is over: a request was issued for an entity with a usable       *)
(* website and none for an entity left without website                     *)
C20_Witness ==
  /\ pc = "done" /\ pipeline \in SeqPipelines
  /\ \E a, b \in DOMAIN records :
       /\ Truthy(records[a].website) /\ hist[a].log # <<>>
       /\ ~Truthy(records[b].website) /\ hist[b].log = <<>>

---------------------------------------------------------------------------
(* Claims about domain discovery *)

HitUrl(hit) == IF hit.href # NoUrl THEN hit.href ELSE hit.url

(* C21: domain discovery (CPG, CMS, domain_bridge) uses the first result   *)
(* of the provider only: the domain it yields is that of the first result  *)
(* or none, and it is none when the first result has no domain or a        *)
(* blocked one.                                                            *)
C21_OnlyFirstResult ==
  /\ (Returned("cpg", "discover_domains") /\ arg.value.items # <<>>) =>
       LET first == arg.value.items[1]
       IN  ret = IF Truthy(first) /\ ~_is_aggregator_domain(first) THEN first ELSE <<>>
  /\ (Returned("cms", "discover_domains") /\ arg.value.items # <<>>) =>
       LET first == _extract_root_domain(arg.value.items[1])
       IN  ret = IF Truthy(first) /\ ~_is_aggregator_domain(first) THEN first ELSE <<>>
  /\ (Returned("domain_bridge", "search_domain_one") /\ arg.value.items # <<>>) =>
       LET first == extract_root_domain(HitUrl(arg.value.items[1]))
       IN  ret.domain = IF Truthy(first) /\ first \notin SKIP_DOMAINS THEN first ELSE <<>>

---------------------------------------------------------------------------
(* Claims about the CSV scripts *)

(* C23: when domain_bridge.run has finished, every row whose website was   *)
(* non-empty in the input file was never searched and has the same website *)
(* in the output file, and no row differs from the input in a column other *)
(* than website.                                                           *)
C23_OnlyWebsiteOfEmptyRows ==
  (pipeline = "domain_bridge" /\ pc = "done") =>
    /\ Len(outfile.rows) = Len(infile)
    /\ \A i \in 1..Len(infile) :
         /\ infile[i].website # <<>> =>
              /\ i \notin processed
              /\ outfile.rows[i].website = infile[i].website
         /\ outfile.rows[i].company = infile[i].company

(* C24: a crash of domain_bridge.run loses no finished work: when the run  *)
(* has crashed, also in the middle of a later checkpoint write, the output *)
(* file holds the website value of every row whose checkpoint had been     *)
(* written.                                                                *)
C24_CrashKeepsCheckpoint ==
  (pipeline = "domain_bridge" /\ pc = "crashed") =>
    \A k \in processed :
      /\ outfile.exists
      /\ k <= Len(outfile.rows)
      /\ outfile.rows[k].website = df[k].website

(* C22: a missing provider credential never fails the run: without         *)
(* HUNTER_API_KEY the run of enrich_leads issues no request, ends          *)
(* normally and has written an output file with every input row.           *)
C22_MissingKeyStillExports ==
  (pipeline = "enrich_leads" /\ ~HUNTER_API_KEY /\ pc # "load") =>
    /\ pc = "done"
    /\ netCalls = 0
    /\ outfile.exists
    /\ Len(outfile.rows) = Len(infile)

(* C27: when enrich_leads.run is done, searches_used equals the number of  *)
(* rows that needed enrichment and equals the number of Hunter requests    *)
(* sent: one request per row.                                              *)
C27_OneRequestPerRow ==
  (pipeline = "enrich_leads" /\ pc = "done") =>
    /\ searches_used = Len(todo)
    /\ netCalls = searches_used

RetryKinds == {"rate_limited", "http_error", "exception"}

(* C28: hunter_search returns a dict after at most MAX_RETRIES requests    *)
(* for one domain, whatever the answers are: a 403 ends it at once with    *)
(* {}, only 429s, HTTP errors and exceptions are followed by another       *)
(* attempt, MAX_RETRIES of them in a row end it with {}, and every call    *)
(* that has started returns.                                               *)
C28_HunterSearchTerminates ==
  /\ [](pc = "search" =>
          /\ cur_attempt \in 1..MAX_RETRIES
          /\ cur_attempt > 1 => arg.kind \in RetryKinds)
  /\ [](pc = "returned" =>
          /\ cur_attempt \in 1..MAX_RETRIES
          /\ ret = EmptyDict \/ DOMAIN ret = {"name", "title", "email", "confidence"}
          /\ arg.kind = "forbidden" => ret = EmptyDict
          /\ (cur_attempt = MAX_RETRIES /\ arg.kind \in RetryKinds) => ret = EmptyDict)
  /\ (pc = "search") ~> (pc = "returned")

(* the last attempt was answered 429 and hunter_search returned {} *)
C28_Witness ==
  /\ pipeline = "enrich_leads" /\ pc = "returned"
  /\ cur_attempt = MAX_RETRIES
  /\ arg.kind = "rate_limited"
  /\ ret = EmptyDict

---------------------------------------------------------------------------
(* Claims about the dealer pipeline *)

FirstWithKey(key) ==
  scraped[CHOOSE i \in 1..Len(scraped) :
            /\ _normalize_company(scraped[i].company) = key
            /\ \A j \in 1..(i - 1) : _normalize_company(scraped[j].company) # key]

(* C25: while _run_pagination runs and when it has returned, no two        *)
(* records kept have the same normalized company key, every key parsed so  *)
(* far is kept, and the record kept for a key is the first one with that   *)
(* key in page order: a later page never replaces it.                      *)
C25_FirstRecordPerKey ==
  (pipeline = "dealer" /\ pc \in {"parse", "paged"}) =>
    /\ \A i, j \in 1..Len(seen) :
         i # j => _normalize_company(seen[i].company) # _normalize_company(seen[j].company)
    /\ Keys(seen) = Keys(scraped)
    /\ \A i \in 1..Len(seen) : seen[i] = FirstWithKey(_normalize_company(seen[i].company))
    /\ pc = "paged" => records = seen

(* the second page repeats a company of the first page under another       *)
(* spelling and with another phone number; the first record is returned    *)
C25_Witness ==
  /\ pipeline = "dealer" /\ pc = "paged" /\ page_num = 2
  /\ \E i, j \in 1..Len(scraped) :
       /\ i < j
       /\ scraped[i].company # scraped[j].company
       /\ scraped[i].phone # scraped[j].phone
       /\ _normalize_company(scraped[i].company) = _normalize_company(scraped[j].company)
       /\ \E k \in 1..Len(records) : records[k] = scraped[i]
       /\ \A k \in 1..Len(records) : records[k] # scraped[j]


(* C26: once enrich has returned for a record of the dealer pipeline, the  *)
(* record's email_source is "apollo", "hunter" or "not_found".             *)
C26_DealerEmailSourceDomain ==
  \A id \in Ids :
    (pipeline = "dealer" /\ task[id].pc = "returned") =>
      records[id].email_source \in {<<"apollo">>, <<"hunter">>, NOT_FOUND}


---------------------------------------------------------------------------
(* Claims about the bounds of the rate gate *)

(* the wait of a caller that goes to sleep in this step *)
SleepsWithin(c) ==
  (caller[c].pc = "ready" /\ caller'[c].pc = "sleeping") =>
    LET wait == caller'[c].wake - now
    IN  wait > 0 /\ wait <= WINDOW

(* C29: in every state of the rate gate 0 <= _request_count <= APOLLO_RPM, *)
(* and every time a caller of _throttle goes to sleep its wait is above 0  *)
(* and at most 60 seconds, however the callers interleave.                 *)
C29_CountAndWaitBounded ==
  /\ [](pc = "gate" => (_request_count >= 0 /\ _request_count <= APOLLO_RPM))
  /\ [][\A c \in Callers : SleepsWithin(c)]_vars

(* both callers are asleep at the ceiling at the same time, each due to    *)
(* wake within the window                                                  *)
C29_Witness ==
  /\ pc = "gate"
  /\ _request_count = APOLLO_RPM
  /\ now > _window_start
  /\ \A c \in Callers :
       /\ caller[c].pc = "sleeping"
       /\ caller[c].wake > now
       /\ caller[c].wake <= now + WINDOW


---------------------------------------------------------------------------
(* Claims about the FMCSA client *)

(* C30: the FMCSA client never sends a Hunter request, with or without     *)
(* HUNTER_API_KEY: no call of enrich is ever waiting for Hunter, nothing   *)
(* comes back from Hunter, email_source is never "hunter", and a contact   *)
(* email on a record is the one Apollo returned.                           *)
C30_FmcsaNeverAsksHunter ==
  pipeline = "fmcsa" =>
    \A id \in Ids :
      /\ task[id].pc # "hunter"
      /\ \A i \in 1..Len(hist[id].log) : hist[id].log[i] # "hunter"
      /\ hist[id].hunter = EmptyDict
      /\ records[id].email_source # <<"hunter">>
      /\ Truthy(records[id].contact_email) =>
           /\ records[id].contact_email = Get(hist[id].apollo, "contact_email")
           /\ records[id].email_source = <<"apollo">>

(* the key is set and Apollo gave no email, so enrich took the fallback    *)
(* branch; it returned without a request to Hunter                         *)
C30_Witness ==
  /\ pipeline = "fmcsa" /\ HUNTER_API_KEY /\ APOLLO_API_KEY
  /\ \E id \in Ids :
       /\ task[id].pc = "returned"
       /\ hist[id].log = <<"apollo_org", "apollo_people">>
       /\ ~Truthy(Get(hist[id].apollo, "contact_email"))
       /\ records[id].email_source = <<"apollo_no_email">>
       /\ netCalls = 2

=============================================================================
